---- MODULE Spec2Model ----
(***************************************************************************)
(* A model of HighsHashTree<K, V> (src/src/util/HighsHashTree.h): a hash    *)
(* array mapped trie with size-classed leaves.                              *)
(*                                                                         *)
(* Memory is modelled explicitly: heap maps the addresses of the nodes     *)
(* that are allocated and not freed to their contents, a NodePtr is the    *)
(* tagged pointer [type, ptr], and every function of the source that       *)
(* takes a node and may allocate, free or write is an operator from a      *)
(* machine m = [heap, brk, ub] to a machine.                               *)
(*                                                                         *)
(* A 64-bit hash is held as its eleven 6-bit chunks, least significant     *)
(* first (the eleventh holds the four top bits); an occupation mask is     *)
(* held as the set of its set bit positions.                               *)
(***************************************************************************)
EXTENDS Integers, Sequences, FiniteSets, TLC

\* ------------------------------------------------------------------------
\* enum Type and enum Constants
\* ------------------------------------------------------------------------
kEmpty == 0
kListLeaf == 1
kInnerLeafSizeClass1 == 2
kInnerLeafSizeClass2 == 3
kInnerLeafSizeClass3 == 4
kInnerLeafSizeClass4 == 5
kBranchNode == 6

kBitsPerLevel == 6
kBranchFactor == 2 ^ kBitsPerLevel
kMaxDepth == (64 + (kBitsPerLevel - 1)) \div kBitsPerLevel
kMinLeafSize == 6
kLeafBurstThreshold == 30

\* sizeof(BranchNode) and sizeof(NodePtr) of struct BranchNode
\* { Occupation occupation; NodePtr child[1]; } on an LP64 target.
SizeofBranchNode == 16
SizeofNodePtr == 8

nullptr == [type |-> kEmpty, ptr |-> 0]

\* ------------------------------------------------------------------------
\* HighsHashHelpers (util/HighsHash.h): popcnt and log2i on a mask
\* ------------------------------------------------------------------------
popcnt(mask) == Cardinality(mask)

log2i(mask) == CHOOSE b \in mask : \A c \in mask : c <= b

\* mask >> n and mask << n on 64 bits
ShiftRight(mask, n) == {b - n : b \in {x \in mask : x >= n}}

ShiftLeft(mask, n) == {b + n : b \in {x \in mask : x + n <= 63}}

\* ------------------------------------------------------------------------
\* hash chunks
\* ------------------------------------------------------------------------
get_hash_chunk(hash, pos) == hash[pos + 1]

\* ------------------------------------------------------------------------
\* struct Occupation
\* ------------------------------------------------------------------------
OccSet(occupation, pos) == occupation \cup {pos}

OccFlip(occupation, pos) ==
    IF pos \in occupation THEN occupation \ {pos} ELSE occupation \cup {pos}

OccTest(occupation, pos) == pos \in occupation

num_set_until(occupation, pos) == popcnt(ShiftRight(occupation, pos))

\* a count of the bits above pos
num_set_after_above(occupation, pos) == popcnt(ShiftRight(occupation, pos + 1))

num_set_after(occupation, pos) == popcnt(ShiftLeft(occupation, 63 - pos))

num_set(occupation) == popcnt(occupation)

\* ------------------------------------------------------------------------
\* struct InnerLeaf<kSizeClass>: [occupation, size, entries]
\* entries holds entries[0 .. size); an entry is [key, value]
\* ------------------------------------------------------------------------
\* size classes of 6, 12, 18 and 24 entries
capacity_sixEach(kSizeClass) == kMinLeafSize * kSizeClass

capacity(kSizeClass) ==
    kMinLeafSize + ((kSizeClass - 1) * (kLeafBurstThreshold - kMinLeafSize)) \div 3

NewInnerLeaf == [occupation |-> {}, size |-> 0, entries |-> <<>>]

MinOf(S) == CHOOSE x \in S : \A y \in S : x <= y

\* entries with `entry' written at index i (0-based) and entries[i .. size)
\* moved one slot to the right (std::move_backward)
InsertAt(entries, i, entry) ==
    SubSeq(entries, 1, i) \o <<entry>> \o SubSeq(entries, i + 1, Len(entries))

\* entries with the entry at index i (0-based) overwritten by its successors
RemoveAt(entries, i) ==
    SubSeq(entries, 1, i) \o SubSeq(entries, i + 2, Len(entries))

\* InnerLeaf::insert_entry: [leaf, ret, ub]; ub is the failed
\* assert(size < capacity())
insert_entry(leaf, kSizeClass, hash, hashPos, entry) ==
    LET hashChunk == get_hash_chunk(hash, hashPos)
        full == ~(leaf.size < capacity(kSizeClass))
    IN  IF OccTest(leaf.occupation, hashChunk)
        THEN LET stop == {i \in 1 .. leaf.size : entry.key <= leaf.entries[i].key}
                 i == IF stop = {} THEN leaf.size ELSE MinOf(stop) - 1
             IN  IF stop # {} /\ entry.key = leaf.entries[i + 1].key
                 THEN [leaf |-> leaf, ret |-> FALSE, ub |-> full]
                 ELSE [leaf |-> [leaf EXCEPT !.entries = InsertAt(@, i, entry),
                                             !.size = @ + 1],
                       ret |-> TRUE, ub |-> full]
        ELSE LET stop == {i \in 1 .. leaf.size : entry.key < leaf.entries[i].key}
                 i == IF stop = {} THEN leaf.size ELSE MinOf(stop) - 1
             IN  [leaf |-> [occupation |-> OccSet(leaf.occupation, hashChunk),
                            size |-> leaf.size + 1,
                            entries |-> InsertAt(leaf.entries, i, entry)],
                  ret |-> TRUE, ub |-> full]

\* InnerLeaf::find_entry: the index (1-based) of the entry found, 0 for nullptr
find_entry(leaf, hash, hashPos, key) ==
    LET hashChunk == get_hash_chunk(hash, hashPos)
        stop == {i \in 1 .. leaf.size : key <= leaf.entries[i].key}
    IN  IF ~OccTest(leaf.occupation, hashChunk) THEN 0
        ELSE IF stop = {} THEN 0
        ELSE IF key = leaf.entries[MinOf(stop)].key THEN MinOf(stop)
        ELSE 0

\* ------------------------------------------------------------------------
\* The key type: keys are integers ordered by <, and HighsHashHelpers::hash
\* is the hash function of the key universe the environment chose (profile).
\* ------------------------------------------------------------------------
VARIABLES
    heap,      \* address -> node, for the nodes allocated and not freed
    brk,       \* the next address operator new hands out
    root,      \* tree -> NodePtr, the member HighsHashTree::root
    alive,     \* the trees constructed and not destructed
    content,   \* tree -> (key -> value): what the container holds by contract
    status,    \* "ok", or "crashed" once the process has aborted or faulted
    last,      \* the most recent call and what it returned
    calls,     \* the member functions called so far
    profile,   \* the key universe (keys, their hashes, the build script)
    pc,        \* how much of the build script has run
    free,      \* how many unscripted calls have been made
    counting   \* an Occupation, a position and the count returned for them

vars ==
    <<heap, brk, root, alive, content, status, last, calls, profile, pc, free,
      counting>>

\* the hash of key k in key universe p
RECURSIVE Chunks(_, _)
Chunks(n, c) == IF n = 0 THEN <<>> ELSE <<c>> \o Chunks(n - 1, c)

HashIn(p, k) ==
    CASE p \in {"deep", "drain"} ->
           \* keys 1..33 agree on chunks 0..9; key 2 differs from keys 1..31
           \* in chunk 10 only; keys 32 and 33 have the same full hash
           Chunks(10, 5) \o <<IF k = 2 THEN 6 ELSE IF k >= 32 THEN 7 ELSE 5>>
      [] p = "shared" ->
           \* all keys agree on chunk 0 and each has its own chunk 1
           <<1, k>> \o Chunks(9, 0)
      [] p \in {"burst", "chain"} ->
           \* keys agree on chunks 0..9; key 31 differs in chunk 10
           Chunks(10, 5) \o <<IF k = 31 THEN 6 ELSE 5>>
      [] p = "level" ->
           \* keys have chunk 0 at depths 0 and 1 and their own chunk at depth 2
           <<0, 0, k>> \o Chunks(8, 0)
      [] p = "wide" ->
           \* keys 1..31 are spread over the chunks 1..7, key 32 has chunk 8
           <<IF k >= 32 THEN 8 ELSE (k % 7) + 1, k>> \o Chunks(9, 0)
      [] p = "stale" ->
           \* all keys agree on chunk 0; chunk 1 falls as the key grows
           <<1, 40 - k>> \o Chunks(9, 0)
      [] p = "lone" ->
           \* key 2 is alone under chunk 1, the other keys are under chunk 2
           <<IF k = 2 THEN 1 ELSE 2, k>> \o Chunks(9, 0)
      [] OTHER ->
           \* "pair": keys 1..9 under chunk 1, keys 10..31 under chunk 2,
           \* keys from 32 on under chunk 3, each with its own chunk 1 below
           <<IF k <= 9 THEN 1 ELSE IF k <= 31 THEN 2 ELSE 3, k>> \o Chunks(9, 0)

Hash(k) == HashIn(profile, k)

\* InnerLeaf::erase_entry: [leaf, ret]
erase_entry(leaf, hash, hashPos, key) ==
    LET hashChunk == get_hash_chunk(hash, hashPos)
        sameChunk == {i \in 1 .. leaf.size :
                        get_hash_chunk(Hash(leaf.entries[i].key), hashPos) = hashChunk}
        foundHashChunk == Cardinality(sameChunk)
        hit == {i \in 1 .. leaf.size :
                    /\ sameChunk # {}
                    /\ i >= MinOf(sameChunk)
                    /\ key = leaf.entries[i].key}
        foundElement == hit # {}
    IN  IF ~OccTest(leaf.occupation, hashChunk) THEN [leaf |-> leaf, ret |-> FALSE]
        ELSE IF ~foundElement THEN [leaf |-> leaf, ret |-> FALSE]
        ELSE [leaf |-> [occupation |-> IF foundHashChunk = 1
                                       THEN OccFlip(leaf.occupation, hashChunk)
                                       ELSE leaf.occupation,
                        size |-> leaf.size - 1,
                        entries |-> RemoveAt(leaf.entries, MinOf(hit) - 1)],
              ret |-> TRUE]

\* ------------------------------------------------------------------------
\* The machine: operator new / operator delete and writes through pointers
\* ------------------------------------------------------------------------
\* TRUE.  TLC evaluates an operator's arguments when they are first used;
\* a loop asks for this at its head so that the state it carries is computed
\* iteration by iteration and not as one nested expression at the end.
Evaluated(x) == x = x

Machine(h, b) == [heap |-> h, brk |-> b, ub |-> {}]

\* operator new: the node is placed at address m.brk
New(m, node) == [m EXCEPT !.heap = (m.brk :> node) @@ @, !.brk = @ + 1]

\* operator delete
Delete(m, a) == [m EXCEPT !.heap = [x \in (DOMAIN @) \ {a} |-> @[x]]]

Write(m, a, node) == [m EXCEPT !.heap[a] = node]

\* undefined behaviour met on the way: what was violated
Ub(m, what) == [m EXCEPT !.ub = @ \cup {what}]

UbIf(m, cond, what) == IF cond THEN Ub(m, what) ELSE m

\* NodePtr constructors and NodePtr::getType
ListLeafPtr(a) == [type |-> kListLeaf, ptr |-> a]

InnerLeafPtr(kSizeClass, a) == [type |-> kInnerLeafSizeClass1 + (kSizeClass - 1), ptr |-> a]

BranchPtr(a) == [type |-> kBranchNode, ptr |-> a]

IsInnerLeaf(node) == node.type \in kInnerLeafSizeClass1 .. kInnerLeafSizeClass4

SizeClassOf(node) == node.type - kInnerLeafSizeClass1 + 1

\* struct ListNode [next, entry]; struct ListLeaf [first, count]
NewListNode(entry) == [next |-> 0, entry |-> entry]

NewListLeaf(entry) == [first |-> NewListNode(entry), count |-> 1]

\* getBranchNodeSize
getBranchNodeSize(numChilds) ==
    ((SizeofBranchNode + (numChilds - 1) * SizeofNodePtr + 63) \div 64) * 64

\* ------------------------------------------------------------------------
\* mergeIntoLeaf
\* ------------------------------------------------------------------------
\* mergeIntoLeaf(InnerLeaf*, InnerLeaf*, hashPos), from entry i (1-based) on:
\* r = [leaf, ub] is the receiving leaf so far
RECURSIVE mergeLeafIntoLeaf(_, _, _, _, _)
mergeLeafIntoLeaf(r, kSizeClass, mergeLeaf, hashPos, i) ==
    IF Evaluated(r) /\ i > mergeLeaf.size THEN r
    ELSE LET e == mergeLeaf.entries[i]
             ins == insert_entry(r.leaf, kSizeClass, Hash(e.key), hashPos, e)
         IN  mergeLeafIntoLeaf([leaf |-> ins.leaf, ub |-> r.ub \/ ins.ub],
                               kSizeClass, mergeLeaf, hashPos, i + 1)

\* the chain walk of mergeIntoLeaf(InnerLeaf*, hashPos, NodePtr), kListLeaf:
\* every chain node after the head is inserted and deleted
RECURSIVE mergeChainIntoLeaf(_, _, _, _, _)
mergeChainIntoLeaf(m, leafAddr, kSizeClass, hashPos, iter) ==
    IF iter = 0 THEN m
    ELSE LET node == m.heap[iter]
             ins == insert_entry(m.heap[leafAddr], kSizeClass,
                                 Hash(node.entry.key), hashPos, node.entry)
             m1 == UbIf(Write(m, leafAddr, ins.leaf), ins.ub, "assert_capacity")
         IN  mergeChainIntoLeaf(Delete(m1, iter), leafAddr, kSizeClass, hashPos,
                                node.next)

\* mergeIntoLeaf(InnerLeaf<SizeClass>* leaf, int hashPos, NodePtr mergeNode)
mergeIntoLeaf(m, leafAddr, kSizeClass, hashPos, mergeNode) ==
    IF mergeNode.type = kListLeaf
    THEN LET mergeLeaf == m.heap[mergeNode.ptr]
             ins == insert_entry(m.heap[leafAddr], kSizeClass,
                                 Hash(mergeLeaf.first.entry.key), hashPos,
                                 mergeLeaf.first.entry)
             m1 == UbIf(Write(m, leafAddr, ins.leaf), ins.ub, "assert_capacity")
         IN  mergeChainIntoLeaf(m1, leafAddr, kSizeClass, hashPos,
                                mergeLeaf.first.next)
    ELSE IF IsInnerLeaf(mergeNode)
    THEN LET r == mergeLeafIntoLeaf([leaf |-> m.heap[leafAddr], ub |-> FALSE],
                                    kSizeClass, m.heap[mergeNode.ptr], hashPos, 1)
             m1 == UbIf(Write(m, leafAddr, r.leaf), r.ub, "assert_capacity")
         IN  Delete(m1, mergeNode.ptr)
    ELSE m

\* ------------------------------------------------------------------------
\* insert
\* ------------------------------------------------------------------------
\* insert_into_leaf: [m, node, ret], node being what *insertNode holds
insert_into_leaf(m, node, hash, hashPos, entry) ==
    LET kSizeClass == SizeClassOf(node)
        leaf == m.heap[node.ptr]
    IN  IF leaf.size = capacity(kSizeClass)
        THEN IF find_entry(leaf, hash, hashPos, entry.key) # 0
             THEN [m |-> m, node |-> node, ret |-> FALSE]
             ELSE LET newLeaf == m.brk
                      m1 == New(m, NewInnerLeaf)
                      r == mergeLeafIntoLeaf([leaf |-> NewInnerLeaf, ub |-> FALSE],
                                             kSizeClass + 1, leaf, hashPos, 1)
                      ins == insert_entry(r.leaf, kSizeClass + 1, hash, hashPos, entry)
                      m2 == Delete(Write(m1, newLeaf, ins.leaf), node.ptr)
                  IN  [m |-> UbIf(m2, r.ub \/ ins.ub, "assert_capacity"),
                       node |-> InnerLeafPtr(kSizeClass + 1, newLeaf),
                       ret |-> ins.ret]
        ELSE LET ins == insert_entry(leaf, kSizeClass, hash, hashPos, entry)
             IN  [m |-> UbIf(Write(m, node.ptr, ins.leaf), ins.ub, "assert_capacity"),
                  node |-> node, ret |-> ins.ret]

\* the loop of the burst at hashPos + 1 == kMaxDepth: entries[i ..] of the
\* old leaf go to the list leaf at listAddr, each in front of the chain
RECURSIVE burstIntoList(_, _, _, _)
burstIntoList(m, listAddr, entries, i) ==
    IF Evaluated(m) /\ i > Len(entries) THEN m
    ELSE LET listLeaf == m.heap[listAddr]
             newNode == m.brk
             m1 == New(m, listLeaf.first)
             m2 == Write(m1, listAddr,
                         [first |-> [next |-> newNode, entry |-> entries[i]],
                          count |-> listLeaf.count + 1])
         IN  burstIntoList(m2, listAddr, entries, i + 1)

\* branch->child[i] = new InnerLeaf<c> for i in from .. Len(classes), classes[i]
\* being the size class of child i - 1, or 0 where the switch has no case
RECURSIVE newChildLeaves(_, _, _)
newChildLeaves(r, classes, i) ==
    IF Evaluated(r) /\ i > Len(classes) THEN r
    ELSE IF classes[i] = 0
    THEN newChildLeaves([m |-> Ub(r.m, "uninit_child"),
                         child |-> Append(r.child, nullptr)], classes, i + 1)
    ELSE newChildLeaves([m |-> New(r.m, NewInnerLeaf),
                         child |-> Append(r.child, InnerLeafPtr(classes[i], r.m.brk))],
                        classes, i + 1)

\* branch->child[pos].getInnerLeafSizeClassN()->insert_entry(hash, hashPos, entry)
\* for pos = num_set_until(chunk) - 1
insertIntoChild(m, child, pos, hash, hashPos, entry) ==
    IF pos < 0 \/ pos >= Len(child) THEN Ub(m, "oob_index")
    ELSE IF ~IsInnerLeaf(child[pos + 1]) THEN m
    ELSE LET c == child[pos + 1]
             ins == insert_entry(m.heap[c.ptr], SizeClassOf(c), hash, hashPos, entry)
         IN  UbIf(Write(m, c.ptr, ins.leaf), ins.ub, "assert_capacity")

\* the loops that hand entries[i ..] of the bursting leaf to the children
RECURSIVE distribute(_, _, _, _, _, _)
distribute(m, child, occupation, entries, hashPos, i) ==
    IF Evaluated(m) /\ i > Len(entries) THEN m
    ELSE LET e == entries[i]
             pos == num_set_until(occupation, get_hash_chunk(Hash(e.key), hashPos)) - 1
         IN  distribute(insertIntoChild(m, child, pos, Hash(e.key), hashPos + 1, e),
                        child, occupation, entries, hashPos, i + 1)

\* sizes[]: the number of entries counted for child index i (0-based)
burstSizes(occupation, hashChunk, entries, hashPos, i) ==
    (IF num_set_until(occupation, hashChunk) - 1 = i THEN 1 ELSE 0)
    + Cardinality({j \in 1 .. Len(entries) :
         num_set_until(occupation,
                       get_hash_chunk(Hash(entries[j].key), hashPos)) - 1 = i})

\* switch ((sizes[i] + 1) / 8)
burstClass(size) ==
    LET sel == (size + 1) \div 8
    IN  IF sel \in 0 .. 3 THEN sel + 1 ELSE 0

\* struct BranchNode: [occupation, child], child[i + 1] being child[i] of the
\* source; a slot the source leaves uninitialised holds nullptr here
NewBranch(occupation, child) == [occupation |-> occupation, child |-> child]

\* a child array that keeps the old slots where they are and has the free
\* slot at its end
addedChild_atEnd(child, location, rightChilds, inPlace) ==
    [i \in 1 .. (location + rightChilds + 1) |->
        IF i <= Len(child) /\ i <= location + rightChilds THEN child[i] ELSE nullptr]

\* the child array after addChildToBranchNode made room at `location':
\* slots below location are kept, rightChilds slots from location on are
\* moved up by one, slot location is left for the caller
addedChild(child, location, rightChilds, inPlace) ==
    [i \in 1 .. (location + rightChilds + 1) |->
        IF i <= location THEN child[i]
        ELSE IF i = location + 1
             THEN (IF inPlace /\ i <= Len(child) THEN child[i] ELSE nullptr)
        ELSE child[i - 1]]

\* an addChildToBranchNode that copies only the left part when it moves the
\* branch node to a larger allocation
addChild_dropsRight(m, branch, hashValue, location) ==
    LET old == m.heap[branch]
        rightChilds == num_set_after(old.occupation, hashValue)
        newSize == getBranchNodeSize(location + rightChilds + 1)
    IN  IF newSize = getBranchNodeSize(location + rightChilds)
        THEN [m |-> Write(m, branch,
                          NewBranch(old.occupation,
                                    addedChild(old.child, location, rightChilds, TRUE))),
              branch |-> branch]
        ELSE [m |-> Delete(New(m, NewBranch(old.occupation,
                                  [i \in 1 .. (location + rightChilds + 1) |->
                                      IF i <= location THEN old.child[i] ELSE nullptr])),
                           branch),
              branch |-> m.brk]

\* addChildToBranchNode: [m, branch], branch being the address returned
addChildToBranchNode(m, branch, hashValue, location) ==
    LET old == m.heap[branch]
        rightChilds == num_set_after(old.occupation, hashValue)
        m0 == UbIf(m, rightChilds + location # num_set(old.occupation),
                   "assert_add_child")
        newSize == getBranchNodeSize(location + rightChilds + 1)
    IN  IF newSize = getBranchNodeSize(location + rightChilds)
        THEN [m |-> Write(m0, branch,
                          NewBranch(old.occupation,
                                    addedChild(old.child, location, rightChilds, TRUE))),
              branch |-> branch]
        ELSE [m |-> Delete(New(m0, NewBranch(old.occupation,
                                   addedChild(old.child, location, rightChilds, FALSE))),
                           branch),
              branch |-> m0.brk]

\* insert_recurse, case kListLeaf, from chain node iter on (0: leaf->first)
RECURSIVE insertIntoList(_, _, _, _)
insertIntoList(m, leafAddr, iter, entry) ==
    LET leaf == m.heap[leafAddr]
        cur == IF iter = 0 THEN leaf.first ELSE m.heap[iter]
    IN  IF cur.entry.key = entry.key THEN [m |-> m, ret |-> FALSE]
        ELSE IF cur.next = 0
        THEN LET m1 == New(m, NewListNode(entry))
                 m2 == IF iter = 0
                       THEN Write(m1, leafAddr, [leaf EXCEPT !.first.next = m.brk,
                                                             !.count = @ + 1])
                       ELSE Write(Write(m1, iter, [cur EXCEPT !.next = m.brk]),
                                  leafAddr, [leaf EXCEPT !.count = @ + 1])
             IN  [m |-> m2, ret |-> TRUE]
        ELSE insertIntoList(m, leafAddr, cur.next, entry)

\* insert_recurse, the new branch node gets one child: the full leaf becomes
\* child[0] as it is, and the insertion goes on there one level deeper
pushDown(m, branch, occupation, node) ==
    Write(m, branch, NewBranch(occupation, <<node>>))

\* an empty slot that gets a list leaf at whatever depth it is
insertIntoEmpty_list(m, hash, hashPos, entry) ==
    [m |-> New(m, NewListLeaf(entry)), node |-> ListLeafPtr(m.brk), ret |-> TRUE]

\* an empty slot at kMaxDepth that gets a branch node with the list leaf as
\* its one child, a level below kMaxDepth
insertIntoEmpty_deeper(m, hash, hashPos, entry) ==
    IF hashPos = kMaxDepth
    THEN [m |-> New(New(m, NewListLeaf(entry)),
                    NewBranch({0}, <<ListLeafPtr(m.brk)>>)),
          node |-> BranchPtr(m.brk + 1), ret |-> TRUE]
    ELSE LET ins == insert_entry(NewInnerLeaf, 1, hash, hashPos, entry)
         IN  [m |-> New(m, ins.leaf), node |-> InnerLeafPtr(1, m.brk),
              ret |-> TRUE]

\* insert_recurse, case kEmpty: a list leaf at kMaxDepth, an InnerLeaf<1>
\* above it
insertIntoEmpty(m, hash, hashPos, entry) ==
    IF hashPos = kMaxDepth
    THEN [m |-> New(m, NewListLeaf(entry)), node |-> ListLeafPtr(m.brk),
          ret |-> TRUE]
    ELSE LET ins == insert_entry(NewInnerLeaf, 1, hash, hashPos, entry)
         IN  [m |-> New(m, ins.leaf), node |-> InnerLeafPtr(1, m.brk),
              ret |-> TRUE]

\* insert_recurse: [m, node, ret], node being what *insertNode holds on return
RECURSIVE insert_recurse(_, _, _, _, _)
insert_recurse(m, node, hash, hashPos, entry) ==
    CASE node.type = kEmpty -> insertIntoEmpty(m, hash, hashPos, entry)
      [] node.type = kListLeaf ->
           LET r == insertIntoList(m, node.ptr, 0, entry)
           IN  [m |-> r.m, node |-> node, ret |-> r.ret]
      [] node.type \in kInnerLeafSizeClass1 .. kInnerLeafSizeClass3 ->
           insert_into_leaf(m, node, hash, hashPos, entry)
      [] node.type = kInnerLeafSizeClass4 ->
           LET leaf == m.heap[node.ptr]
               hashChunk == get_hash_chunk(hash, hashPos)
               occupation == OccSet(leaf.occupation, hashChunk)
               branchSize == num_set(occupation)
               branch == m.brk
               m1 == New(m, NewBranch(occupation, <<>>))
               pos == num_set_until(occupation, hashChunk) - 1
           IN  IF leaf.size < capacity(4)
               THEN LET ins == insert_entry(leaf, 4, hash, hashPos, entry)
                    IN  [m |-> UbIf(Write(m, node.ptr, ins.leaf), ins.ub,
                                    "assert_capacity"),
                         node |-> node, ret |-> ins.ret]
               ELSE IF find_entry(leaf, hash, hashPos, entry.key) # 0
               THEN [m |-> m, node |-> node, ret |-> FALSE]
               ELSE IF hashPos + 1 = kMaxDepth
               THEN LET listAddr == m1.brk
                        m2 == New(m1, NewListLeaf(entry))
                        m3 == burstIntoList(m2, listAddr, leaf.entries, 1)
                        child == [i \in 1 .. branchSize |->
                                    IF i = pos + 1 THEN ListLeafPtr(listAddr)
                                    ELSE nullptr]
                    IN  [m |-> Delete(Write(m3, branch, NewBranch(occupation, child)),
                                      node.ptr),
                         node |-> BranchPtr(branch), ret |-> TRUE]
               ELSE IF branchSize > 1
               THEN LET maxEntriesPerLeaf == 2 + leaf.size - branchSize
                    IN  IF maxEntriesPerLeaf <= capacity(1)
                        THEN LET r == newChildLeaves([m |-> m1, child |-> <<>>],
                                                     [i \in 1 .. branchSize |-> 1], 1)
                                 m2 == insertIntoChild(r.m, r.child, pos, hash,
                                                       hashPos + 1, entry)
                                 m3 == distribute(m2, r.child, occupation,
                                                  leaf.entries, hashPos, 1)
                             IN  [m |-> Delete(Write(m3, branch,
                                                     NewBranch(occupation, r.child)),
                                               node.ptr),
                                  node |-> BranchPtr(branch), ret |-> TRUE]
                        ELSE LET classes == [i \in 1 .. branchSize |->
                                               burstClass(burstSizes(occupation,
                                                   hashChunk, leaf.entries, hashPos,
                                                   i - 1))]
                                 r == newChildLeaves([m |-> m1, child |-> <<>>],
                                                     classes, 1)
                                 m2 == distribute(r.m, r.child, occupation,
                                                  leaf.entries, hashPos, 1)
                                 m3 == Delete(Write(m2, branch,
                                                    NewBranch(occupation, r.child)),
                                              node.ptr)
                                 rec == insert_recurse(m3, r.child[pos + 1], hash,
                                                       hashPos + 1, entry)
                             IN  [m |-> Write(rec.m, branch,
                                              NewBranch(occupation,
                                                  [r.child EXCEPT ![pos + 1] = rec.node])),
                                  node |-> BranchPtr(branch), ret |-> rec.ret]
               ELSE LET m2 == pushDown(m1, branch, occupation, node)
                        rec == insert_recurse(m2, node, hash, hashPos + 1, entry)
                    IN  [m |-> Write(rec.m, branch, NewBranch(occupation, <<rec.node>>)),
                         node |-> BranchPtr(branch), ret |-> rec.ret]
      [] OTHER ->
           LET old == m.heap[node.ptr]
               chunk == get_hash_chunk(hash, hashPos)
               until == num_set_until(old.occupation, chunk)
           IN  IF OccTest(old.occupation, chunk)
               THEN LET location == until - 1
                        rec == insert_recurse(m, old.child[location + 1], hash,
                                              hashPos + 1, entry)
                    IN  [m |-> Write(rec.m, node.ptr,
                                     [rec.m.heap[node.ptr] EXCEPT
                                         !.child[location + 1] = rec.node]),
                         node |-> node, ret |-> rec.ret]
               ELSE LET location == until
                        a == addChildToBranchNode(m, node.ptr, chunk, location)
                        grown == a.m.heap[a.branch]
                        m1 == Write(a.m, a.branch,
                                    NewBranch(OccSet(grown.occupation, chunk),
                                              [grown.child EXCEPT ![location + 1] = nullptr]))
                        rec == insert_recurse(m1, nullptr, hash, hashPos + 1, entry)
                    IN  [m |-> Write(rec.m, a.branch,
                                     [rec.m.heap[a.branch] EXCEPT
                                         !.child[location + 1] = rec.node]),
                         node |-> BranchPtr(a.branch), ret |-> rec.ret]

\* ------------------------------------------------------------------------
\* erase
\* ------------------------------------------------------------------------
\* NodePtr::numEntriesEstimate
numEntriesEstimate(node) ==
    CASE node.type = kEmpty -> 0
      [] node.type = kListLeaf -> 1
      [] IsInnerLeaf(node) -> capacity(SizeClassOf(node))
      [] OTHER -> kBranchFactor

\* NodePtr::numEntries
numEntries(m, node) ==
    CASE node.type = kEmpty -> 0
      [] node.type = kListLeaf -> m.heap[node.ptr].count
      [] IsInnerLeaf(node) -> m.heap[node.ptr].size
      [] OTHER -> kBranchFactor

\* for (i = 0; i <= newNumChild; ++i) { childEntries += estimate;
\*                                      if (childEntries > threshold) break; }
RECURSIVE estimateChildEntries(_, _, _, _)
estimateChildEntries(child, i, newNumChild, childEntries) ==
    IF i > newNumChild THEN childEntries
    ELSE LET sum == childEntries + numEntriesEstimate(child[i + 1])
         IN  IF sum > kLeafBurstThreshold THEN sum
             ELSE estimateChildEntries(child, i + 1, newNumChild, sum)

\* a count that reads no child
countChildEntries_none(m, child, i, newNumChild) == 0

RECURSIVE countChildEntries(_, _, _, _)
countChildEntries(m, child, i, newNumChild) ==
    IF i > newNumChild THEN 0
    ELSE numEntries(m, child[i + 1]) + countChildEntries(m, child, i + 1, newNumChild)

\* for (i = 0; i <= newNumChild; ++i) mergeIntoLeaf(newLeaf, hashPos, child[i])
RECURSIVE mergeChildren(_, _, _, _, _, _, _)
mergeChildren(m, leafAddr, kSizeClass, hashPos, child, i, newNumChild) ==
    IF Evaluated(m) /\ i > newNumChild THEN m
    ELSE mergeChildren(mergeIntoLeaf(m, leafAddr, kSizeClass, hashPos, child[i + 1]),
                       leafAddr, kSizeClass, hashPos, child, i + 1, newNumChild)

\* a removeChildFromBranchNode that never merges the children into a leaf
removeChild_neverMerges(m, branch, location, hash, hashPos) ==
    LET old == m.heap[branch]
        newNumChild == num_set(old.occupation)
        compact == [i \in 1 .. newNumChild |->
                      IF i <= location THEN old.child[i] ELSE old.child[i + 1]]
    IN  [m |-> Write(m, branch, NewBranch(old.occupation, compact)),
         node |-> BranchPtr(branch)]

\* a removeChildFromBranchNode that merges whenever the children hold fewer
\* than kLeafBurstThreshold entries
removeChild_mergesByCount(m, branch, location, hash, hashPos) ==
    LET old == m.heap[branch]
        newNumChild == num_set(old.occupation)
        childEntries == countChildEntries(m, old.child, 0, newNumChild)
        kSizeClass == ((childEntries + 1) \div 8) + 1
        compact == [i \in 1 .. newNumChild |->
                      IF i <= location THEN old.child[i] ELSE old.child[i + 1]]
    IN  IF childEntries < kLeafBurstThreshold
        THEN LET newLeaf == m.brk
                 m1 == New(m, NewInnerLeaf)
                 m2 == mergeChildren(m1, newLeaf, kSizeClass, hashPos, old.child, 0,
                                     newNumChild)
             IN  [m |-> Delete(m2, branch), node |-> InnerLeafPtr(kSizeClass, newLeaf)]
        ELSE [m |-> Write(m, branch, NewBranch(old.occupation, compact)),
              node |-> BranchPtr(branch)]

\* removeChildFromBranchNode: [m, node]; the caller has flipped the bit
removeChildFromBranchNode(m, branch, location, hash, hashPos) ==
    LET old == m.heap[branch]
        newNumChild == num_set(old.occupation)
        estimate == estimateChildEntries(old.child, 0, newNumChild, 0)
        childEntries == countChildEntries(m, old.child, 0, newNumChild)
        kSizeClass == ((childEntries + 1) \div 8) + 1
        compact == [i \in 1 .. newNumChild |->
                      IF i <= location THEN old.child[i] ELSE old.child[i + 1]]
    IN  IF /\ newNumChild * capacity(1) <= kLeafBurstThreshold
           /\ estimate < kLeafBurstThreshold
           /\ childEntries < kLeafBurstThreshold
        THEN LET newLeaf == m.brk
                 m1 == New(m, NewInnerLeaf)
                 m2 == mergeChildren(m1, newLeaf, kSizeClass, hashPos, old.child, 0,
                                     newNumChild)
             IN  [m |-> Delete(m2, branch), node |-> InnerLeafPtr(kSizeClass, newLeaf)]
        ELSE IF getBranchNodeSize(newNumChild) = getBranchNodeSize(newNumChild + 1)
        THEN [m |-> Write(m, branch, NewBranch(old.occupation, compact)),
              node |-> BranchPtr(branch)]
        ELSE [m |-> Delete(New(m, NewBranch(old.occupation, compact)), branch),
              node |-> BranchPtr(m.brk)]

\* erase_recurse, case kListLeaf: the do-while over the chain from iter on
\* (0: leaf->first)
RECURSIVE eraseFromList(_, _, _, _)
eraseFromList(m, leafAddr, iter, key) ==
    LET leaf == m.heap[leafAddr]
        cur == IF iter = 0 THEN leaf.first ELSE m.heap[iter]
        next == cur.next
    IN  IF cur.entry.key = key
        THEN LET m1 == Write(m, leafAddr, [leaf EXCEPT !.count = @ - 1])
             IN  IF next # 0
                 THEN Delete(IF iter = 0
                             THEN Write(m1, leafAddr,
                                        [m1.heap[leafAddr] EXCEPT !.first = m.heap[next]])
                             ELSE Write(m1, iter, m.heap[next]),
                             next)
                 ELSE m1
        ELSE IF next = 0 THEN m
        ELSE eraseFromList(m, leafAddr, next, key)

\* a leaf that stays in its size class whatever is erased from it
shrinks_never(leaf, kSizeClass) == FALSE

\* erase_recurse, cases kInnerLeafSizeClass2..4: after an erase the leaf goes
\* to the next smaller class if leaf->size == InnerLeaf<kSizeClass - 1>::capacity()
shrinks(leaf, kSizeClass) == leaf.size = capacity(kSizeClass - 1)

\* erase_recurse: [m, node], node being what *erase_node holds on return
RECURSIVE erase_recurse(_, _, _, _, _)
erase_recurse(m, node, hash, hashPos, key) ==
    CASE node.type = kEmpty -> [m |-> m, node |-> node]
      [] node.type = kListLeaf ->
           LET m1 == eraseFromList(m, node.ptr, 0, key)
           IN  IF m1.heap[node.ptr].count = 0
               THEN [m |-> Delete(m1, node.ptr), node |-> nullptr]
               ELSE [m |-> m1, node |-> node]
      [] node.type = kInnerLeafSizeClass1 ->
           LET er == erase_entry(m.heap[node.ptr], hash, hashPos, key)
           IN  IF er.ret /\ er.leaf.size = 0
               THEN [m |-> Delete(m, node.ptr), node |-> nullptr]
               ELSE [m |-> Write(m, node.ptr, er.leaf), node |-> node]
      [] node.type \in kInnerLeafSizeClass2 .. kInnerLeafSizeClass4 ->
           LET kSizeClass == SizeClassOf(node)
               er == erase_entry(m.heap[node.ptr], hash, hashPos, key)
           IN  IF er.ret /\ shrinks(er.leaf, kSizeClass)
               THEN LET newLeaf == m.brk
                        r == mergeLeafIntoLeaf([leaf |-> NewInnerLeaf, ub |-> FALSE],
                                               kSizeClass - 1, er.leaf, hashPos, 1)
                        m1 == UbIf(New(m, r.leaf), r.ub, "assert_capacity")
                    IN  [m |-> Delete(m1, node.ptr),
                         node |-> InnerLeafPtr(kSizeClass - 1, newLeaf)]
               ELSE [m |-> Write(m, node.ptr, er.leaf), node |-> node]
      [] OTHER ->
           LET branch == m.heap[node.ptr]
               chunk == get_hash_chunk(hash, hashPos)
               location == num_set_until(branch.occupation, chunk) - 1
               rec == erase_recurse(m, branch.child[location + 1], hash,
                                    hashPos + 1, key)
               m1 == Write(rec.m, node.ptr,
                           [branch EXCEPT !.child[location + 1] = rec.node])
               m2 == Write(m1, node.ptr,
                           [m1.heap[node.ptr] EXCEPT
                               !.occupation = OccFlip(@, chunk)])
           IN  IF ~OccTest(branch.occupation, chunk) THEN [m |-> m, node |-> node]
               ELSE IF rec.node.type # kEmpty THEN [m |-> m1, node |-> node]
               ELSE removeChildFromBranchNode(m2, node.ptr, location, hash, hashPos)

\* ------------------------------------------------------------------------
\* Allocator exhaustion: operator new throws std::bad_alloc at the first
\* allocation a call makes.  No function of the class catches, so the call
\* is left where the allocation stands, with the writes made before it; the
\* pointer the call was given (*insertNode, *erase_node) is written only
\* after an allocation and holds what it held.
\* [m, thrown]: thrown is FALSE for a call that allocates nothing (m is then
\* not looked at), else m is the memory when the exception leaves the call.
\* ------------------------------------------------------------------------
NotThrown(m) == [m |-> m, thrown |-> FALSE]

Thrown(m) == [m |-> m, thrown |-> TRUE]

RECURSIVE insert_exhausted(_, _, _, _, _)
insert_exhausted(m, node, hash, hashPos, entry) ==
    CASE node.type = kEmpty ->
           \* new ListLeaf / new InnerLeaf<1> throws before *insertNode is set
           Thrown(m)
      [] node.type = kListLeaf ->
           \* new ListNode throws before iter->next and count are written
           IF insertIntoList(m, node.ptr, 0, entry).ret THEN Thrown(m) ELSE NotThrown(m)
      [] IsInnerLeaf(node) ->
           \* new InnerLeaf<SizeClass + 1>, or createBranchingNode, is the
           \* first statement after the tests
           LET leaf == m.heap[node.ptr]
           IN  IF /\ leaf.size = capacity(SizeClassOf(node))
                  /\ find_entry(leaf, hash, hashPos, entry.key) = 0
               THEN Thrown(m) ELSE NotThrown(m)
      [] OTHER ->
           LET old == m.heap[node.ptr]
               chunk == get_hash_chunk(hash, hashPos)
               until == num_set_until(old.occupation, chunk)
               rightChilds == num_set_after(old.occupation, chunk)
           IN  IF OccTest(old.occupation, chunk)
               THEN \* *insertNode = branch writes the pointer it read
                    insert_exhausted(m, old.child[until], hash, hashPos + 1, entry)
               ELSE IF getBranchNodeSize(until + rightChilds + 1)
                         = getBranchNodeSize(until + rightChilds)
               THEN \* the branch node is changed in place, gets the bit and
                    \* a nullptr child; then the leaf for the entry is
                    \* allocated
                    LET a == addChildToBranchNode(m, node.ptr, chunk, until)
                        grown == a.m.heap[node.ptr]
                    IN  Thrown(Write(a.m, node.ptr,
                                     NewBranch(OccSet(grown.occupation, chunk),
                                               [grown.child EXCEPT
                                                   ![until + 1] = nullptr])))
               ELSE \* ::operator new(newSize) of addChildToBranchNode
                    Thrown(m)

\* removeChildFromBranchNode calls operator new: for the merged leaf, or for
\* the smaller branch node
removeChildAllocates(m, branch) ==
    LET old == m.heap[branch]
        newNumChild == num_set(old.occupation)
    IN  \/ /\ newNumChild * capacity(1) <= kLeafBurstThreshold
           /\ estimateChildEntries(old.child, 0, newNumChild, 0) < kLeafBurstThreshold
           /\ countChildEntries(m, old.child, 0, newNumChild) < kLeafBurstThreshold
        \/ getBranchNodeSize(newNumChild) # getBranchNodeSize(newNumChild + 1)

\* erase_recurse, case kBranchNode, the child being a leaf or empty: the
\* call on the child allocates nothing; if it leaves the child empty the
\* bit is flipped and removeChildFromBranchNode is called
eraseLeafChild(m, node, location, hash, hashPos, key) ==
    LET branch == m.heap[node.ptr]
        chunk == get_hash_chunk(hash, hashPos)
        rec == erase_recurse(m, branch.child[location + 1], hash, hashPos + 1, key)
        emptied == Write(rec.m, node.ptr,
                         [occupation |-> OccFlip(branch.occupation, chunk),
                          child |-> [branch.child EXCEPT ![location + 1] = nullptr]])
    IN  IF rec.node.type = kEmpty /\ removeChildAllocates(emptied, node.ptr)
        THEN Thrown(emptied) ELSE NotThrown(m)

RECURSIVE erase_exhausted(_, _, _, _, _)
erase_exhausted(m, node, hash, hashPos, key) ==
    CASE node.type \in {kEmpty, kListLeaf, kInnerLeafSizeClass1} -> NotThrown(m)
      [] node.type \in kInnerLeafSizeClass2 .. kInnerLeafSizeClass4 ->
           \* erase_entry has removed the entry when new InnerLeaf<k - 1> throws
           LET er == erase_entry(m.heap[node.ptr], hash, hashPos, key)
           IN  IF er.ret /\ shrinks(er.leaf, SizeClassOf(node))
               THEN Thrown(Write(m, node.ptr, er.leaf))
               ELSE NotThrown(m)
      [] OTHER ->
           LET branch == m.heap[node.ptr]
               chunk == get_hash_chunk(hash, hashPos)
               location == num_set_until(branch.occupation, chunk) - 1
           IN  IF ~OccTest(branch.occupation, chunk) THEN NotThrown(m)
               ELSE IF branch.child[location + 1].type
                         \in kInnerLeafSizeClass2 .. kBranchNode
               THEN \* a child that is a branch node or a leaf of class 2..4
                    \* is not empty after the call: erase returns
                    erase_exhausted(m, branch.child[location + 1], hash,
                                    hashPos + 1, key)
               ELSE eraseLeafChild(m, node, location, hash, hashPos, key)

\* ------------------------------------------------------------------------
\* find
\* ------------------------------------------------------------------------
NotFound == [found |-> FALSE, value |-> 0]

Found(entry) == [found |-> TRUE, value |-> entry.value]

\* find_recurse, case kListLeaf: the do-while over the chain
RECURSIVE findInList(_, _, _)
findInList(h, cur, key) ==
    IF cur.entry.key = key THEN Found(cur.entry)
    ELSE IF cur.next = 0 THEN NotFound
    ELSE findInList(h, h[cur.next], key)

\* find_recurse: [found, value] for the ValueType* returned
RECURSIVE find_recurse(_, _, _, _, _)
find_recurse(h, node, hash, hashPos, key) ==
    CASE node.type = kEmpty -> NotFound
      [] node.type = kListLeaf -> findInList(h, h[node.ptr].first, key)
      [] IsInnerLeaf(node) ->
           LET leaf == h[node.ptr]
               i == find_entry(leaf, hash, hashPos, key)
           IN  IF i = 0 THEN NotFound ELSE Found(leaf.entries[i])
      [] OTHER ->
           LET branch == h[node.ptr]
               chunk == get_hash_chunk(hash, hashPos)
               location == num_set_until(branch.occupation, chunk) - 1
           IN  IF ~OccTest(branch.occupation, chunk) THEN NotFound
               ELSE find_recurse(h, branch.child[location + 1], hash, hashPos + 1, key)

\* ------------------------------------------------------------------------
\* find_common: <<>> for nullptr, <<entry>> for the entry returned
\* ------------------------------------------------------------------------
\* findCommonInLeaf(InnerLeaf*, InnerLeaf*): the two-pointer loop from
\* indices i, j (0-based)
RECURSIVE commonScan(_, _, _, _)
commonScan(leaf1, leaf2, i, j) ==
    IF leaf1.entries[i + 1].key < leaf2.entries[j + 1].key
    THEN (IF i + 1 < leaf1.size /\ j < leaf2.size
          THEN commonScan(leaf1, leaf2, i + 1, j) ELSE <<>>)
    ELSE IF leaf2.entries[j + 1].key < leaf1.entries[i + 1].key
    THEN (IF i < leaf1.size /\ j + 1 < leaf2.size
          THEN commonScan(leaf1, leaf2, i, j + 1) ELSE <<>>)
    ELSE <<leaf1.entries[i + 1]>>

findCommonInLeaves(leaf1, leaf2) ==
    IF leaf1.occupation \cap leaf2.occupation = {} THEN <<>>
    ELSE IF \/ leaf1.entries[leaf1.size].key < leaf2.entries[1].key
            \/ leaf2.entries[leaf2.size].key < leaf1.entries[1].key
    THEN <<>>
    ELSE commonScan(leaf1, leaf2, 0, 0)

\* findCommonInLeaf(InnerLeaf* leaf, NodePtr n2, int hashPos)
findCommonInLeaf(h, leaf, n2, hashPos) ==
    IF IsInnerLeaf(n2) THEN findCommonInLeaves(leaf, h[n2.ptr])
    ELSE IF n2.type = kBranchNode
    THEN LET hit == {i \in 1 .. leaf.size :
                       find_recurse(h, n2, Hash(leaf.entries[i].key), hashPos,
                                    leaf.entries[i].key).found}
         IN  IF hit = {} THEN <<>> ELSE <<leaf.entries[MinOf(hit)]>>
    ELSE <<>>

\* find_common_recurse, case kListLeaf: the do-while over the chain
RECURSIVE commonInList(_, _, _, _)
commonInList(h, cur, n2, hashPos) ==
    IF find_recurse(h, n2, Hash(cur.entry.key), hashPos, cur.entry.key).found
    THEN <<cur.entry>>
    ELSE IF cur.next = 0 THEN <<>>
    ELSE commonInList(h, h[cur.next], n2, hashPos)

RECURSIVE find_common_recurse(_, _, _, _)
\* find_common_recurse, case kBranchNode: while (matchMask)
RECURSIVE commonInBranches(_, _, _, _, _)
commonInBranches(h, branch1, branch2, matchMask, hashPos) ==
    IF matchMask = {} THEN <<>>
    ELSE LET pos == log2i(matchMask)
             location1 == num_set_until(branch1.occupation, pos) - 1
             location2 == num_set_until(branch2.occupation, pos) - 1
             match == find_common_recurse(h, branch1.child[location1 + 1],
                                          branch2.child[location2 + 1], hashPos + 1)
         IN  IF match # <<>> THEN match
             ELSE commonInBranches(h, branch1, branch2, matchMask \ {pos}, hashPos)

find_common_recurse(h, a, b, hashPos) ==
    LET n1 == IF a.type > b.type THEN b ELSE a
        n2 == IF a.type > b.type THEN a ELSE b
    IN  CASE n1.type = kEmpty -> <<>>
          [] n1.type = kListLeaf -> commonInList(h, h[n1.ptr].first, n2, hashPos)
          [] IsInnerLeaf(n1) -> findCommonInLeaf(h, h[n1.ptr], n2, hashPos)
          [] OTHER -> commonInBranches(h, h[n1.ptr], h[n2.ptr],
                                       h[n1.ptr].occupation \cap h[n2.ptr].occupation,
                                       hashPos)

\* ------------------------------------------------------------------------
\* for_each: the callback f records the entry it is given and returns true
\* on the keys of F; r = [visited, ret] is the calls made so far and what
\* for_each_recurse returns
\* ------------------------------------------------------------------------
RECURSIVE forEachEntries(_, _, _, _)
forEachEntries(entries, i, F, r) ==
    IF Evaluated(r) /\ i > Len(entries) THEN r
    ELSE IF entries[i].key \in F
    THEN [visited |-> Append(r.visited, entries[i]), ret |-> TRUE]
    ELSE forEachEntries(entries, i + 1, F,
                        [visited |-> Append(r.visited, entries[i]), ret |-> FALSE])

RECURSIVE forEachInList(_, _, _, _)
forEachInList(h, cur, F, r) ==
    IF Evaluated(r) /\ cur.entry.key \in F
    THEN [visited |-> Append(r.visited, cur.entry), ret |-> TRUE]
    ELSE IF cur.next = 0
    THEN [visited |-> Append(r.visited, cur.entry), ret |-> FALSE]
    ELSE forEachInList(h, h[cur.next], F,
                       [visited |-> Append(r.visited, cur.entry), ret |-> FALSE])

RECURSIVE for_each_recurse(_, _, _, _)
\* for (i = 0; i < size; ++i) if (for_each_recurse(branch->child[i], f)) return true
\* a loop over the children that goes on after a child has returned true
RECURSIVE forEachChild_goesOn(_, _, _, _, _, _)
forEachChild_goesOn(h, child, i, size, F, r) ==
    IF i >= size THEN r
    ELSE forEachChild_goesOn(h, child, i + 1, size, F,
                             for_each_recurse(h, child[i + 1], F, r))

RECURSIVE forEachChild(_, _, _, _, _, _)
forEachChild(h, child, i, size, F, r) ==
    IF i >= size THEN r
    ELSE LET c == for_each_recurse(h, child[i + 1], F, r)
         IN  IF c.ret THEN c ELSE forEachChild(h, child, i + 1, size, F, c)

for_each_recurse(h, node, F, r) ==
    CASE node.type = kEmpty -> r
      [] node.type = kListLeaf -> forEachInList(h, h[node.ptr].first, F, r)
      [] IsInnerLeaf(node) -> forEachEntries(h[node.ptr].entries, 1, F, r)
      [] OTHER -> forEachChild(h, h[node.ptr].child, 0,
                               num_set(h[node.ptr].occupation), F, r)

\* ------------------------------------------------------------------------
\* destroy_recurse.  Its kListLeaf loop reads iter->next from the node it
\* has just deleted; uaf says what that read yields: "stale" (the value the
\* node held) or "zero" (the allocator has overwritten it with null).
\* ------------------------------------------------------------------------
RECURSIVE destroyChain(_, _, _)
destroyChain(m, iter, uaf) ==
    IF iter = 0 THEN m
    ELSE IF iter \notin DOMAIN m.heap THEN Ub(m, "use_after_free")
    ELSE LET next == m.heap[iter].next
         IN  destroyChain(Ub(Delete(m, iter), "use_after_free"),
                          IF uaf = "stale" THEN next ELSE 0, uaf)

RECURSIVE destroy_recurse(_, _, _)
\* for (i = 0; i < size; ++i) destroy_recurse(branch->child[i])
RECURSIVE destroyChildren(_, _, _, _, _)
destroyChildren(m, child, i, size, uaf) ==
    IF Evaluated(m) /\ i >= size THEN m
    ELSE destroyChildren(destroy_recurse(m, child[i + 1], uaf), child, i + 1, size, uaf)

destroy_recurse(m, node, uaf) ==
    CASE node.type = kEmpty -> m
      [] node.type = kListLeaf ->
           destroyChain(Delete(m, node.ptr), m.heap[node.ptr].first.next, uaf)
      [] IsInnerLeaf(node) -> Delete(m, node.ptr)
      [] OTHER ->
           LET branch == m.heap[node.ptr]
           IN  Delete(destroyChildren(m, branch.child, 0, num_set(branch.occupation),
                                      uaf),
                      node.ptr)

\* ------------------------------------------------------------------------
\* copy_recurse: [m, node].  case kEmpty is assert(false) and then the end
\* of a function that returns a NodePtr: where the build goes on, the caller
\* is taken to receive the empty NodePtr.
\* ------------------------------------------------------------------------
\* the do-while of case kListLeaf: iter is the source node last copied,
\* copyIter the address of its copy (0: copyLeaf->first)
RECURSIVE copyChain(_, _, _, _)
copyChain(m, copyLeaf, copyIter, iter) ==
    IF iter.next = 0 THEN Ub(m, "null_deref")
    ELSE LET source == m.heap[iter.next]
             newNode == m.brk
             m1 == New(m, source)
             m2 == IF copyIter = 0
                   THEN Write(m1, copyLeaf,
                              [m1.heap[copyLeaf] EXCEPT !.first.next = newNode])
                   ELSE Write(m1, copyIter,
                              [m1.heap[copyIter] EXCEPT !.next = newNode])
         IN  IF source.next # 0 THEN copyChain(m2, copyLeaf, newNode, source)
             ELSE m2

\* a copy that hands back the node it was given
copy_shared(m, node) == [m |-> m, node |-> node]

RECURSIVE copy_recurse(_, _)
\* for (i = 0; i < size; ++i) newBranch->child[i] = copy_recurse(branch->child[i])
RECURSIVE copyChildren(_, _, _, _)
copyChildren(r, child, i, size) ==
    IF Evaluated(r) /\ i >= size THEN r
    ELSE LET c == copy_recurse(r.m, child[i + 1])
         IN  copyChildren([m |-> c.m, child |-> Append(r.child, c.node)],
                          child, i + 1, size)

copy_recurse(m, node) ==
    CASE node.type = kEmpty -> [m |-> Ub(m, "assert_false"), node |-> nullptr]
      [] node.type = kListLeaf ->
           LET leaf == m.heap[node.ptr]
               copyLeaf == m.brk
           IN  [m |-> copyChain(New(m, leaf), copyLeaf, 0, leaf.first),
                node |-> ListLeafPtr(copyLeaf)]
      [] IsInnerLeaf(node) ->
           [m |-> New(m, m.heap[node.ptr]),
            node |-> InnerLeafPtr(SizeClassOf(node), m.brk)]
      [] OTHER ->
           LET branch == m.heap[node.ptr]
               newBranch == m.brk
               r == copyChildren([m |-> New(m, NewBranch(branch.occupation, <<>>)),
                                  child |-> <<>>],
                                 branch.child, 0, num_set(branch.occupation))
           IN  [m |-> Write(r.m, newBranch, NewBranch(branch.occupation, r.child)),
                node |-> BranchPtr(newBranch)]

\* ------------------------------------------------------------------------
\* The environment: the calls made on the trees A and B.  A build script
\* runs on A first; from a checkpoint of the script on, up to MaxFree calls
\* with arguments from the probe keys follow.
\* ------------------------------------------------------------------------
MaxFree == 2

Profiles ==
    {"burst", "chain", "deep", "drain", "level", "lone", "pair", "shared", "stale",
     "wide"}

Trees == {"A", "B"}

Values == {1, 2}

MaxKey == 33

Keys == 1 .. MaxKey

RECURSIVE Calls(_, _, _)
Calls(op, from, to) ==
    IF from > to THEN <<>> ELSE <<[op |-> op, key |-> from]>> \o Calls(op, from + 1, to)

Script(p) ==
    CASE p = "deep" -> Calls("insert", 1, 33)
      [] p = "drain" -> Calls("insert", 1, 31) \o Calls("erase", 1, 31)
      [] p = "shared" -> Calls("insert", 1, 31)
      [] p = "burst" -> Calls("insert", 1, 31)
      [] p = "level" -> Calls("insert", 1, 30) \o Calls("erase", 1, 25)
      [] p = "lone" -> Calls("insert", 1, 31) \o Calls("erase", 1, 2)
      [] p = "wide" -> Calls("insert", 1, 32) \o Calls("erase", 32, 32)
      [] p = "stale" -> Calls("insert", 1, 31)
      [] p = "chain" -> Calls("insert", 1, 31) \o Calls("erase", 31, 31)
                          \o Calls("erase", 31, 31) \o Calls("erase", 1, 1)
      [] OTHER -> Calls("insert", 1, 31) \o Calls("erase", 1, 8)

Checkpoints(p) ==
    CASE p = "deep" -> {0, 31, 32, 33}
      [] p = "drain" -> {62}
      [] p = "shared" -> {31}
      [] p = "burst" -> {31}
      [] p = "level" -> {55}
      [] p = "lone" -> {33}
      [] p = "wide" -> {}
      [] p \in {"chain", "stale"} -> {}
      [] OTHER -> {31, 39}

Probes(p) ==
    CASE p = "deep" -> {2, 31, 32, 33}
      [] p = "drain" -> {2, 31}
      [] p = "shared" -> {5, 32}
      [] p = "burst" -> {1}
      [] p = "level" -> {26}
      [] p = "lone" -> {3}
      [] p = "wide" -> {}
      [] p \in {"chain", "stale"} -> {}
      [] OTHER -> {9, 10, 32}

\* the calls of the script are made on A with value 1
Scripted(op, t, k, v) ==
    /\ free = 0
    /\ pc < Len(Script(profile))
    /\ Script(profile)[pc + 1] = [op |-> op, key |-> k]
    /\ t = "A"
    /\ v = 1

Unscripted == free < MaxFree /\ (free > 0 \/ pc \in Checkpoints(profile))

\* the call is the next one of the script, or an unscripted one on a probe key
Budget(op, t, k, v) ==
    \/ Scripted(op, t, k, v) /\ pc' = pc + 1 /\ free' = free
    \/ Unscripted /\ k \in Probes(profile) /\ pc' = pc /\ free' = free + 1

\* ------------------------------------------------------------------------
\* What a call leaves behind
\* ------------------------------------------------------------------------
NoEntries == [k \in {} |-> 0]

\* the entries for_each hands to a callback that never returns true
EntriesOf(h, node) ==
    for_each_recurse(h, node, {}, [visited |-> <<>>, ret |-> FALSE]).visited

\* a sequence as a multiset
BagOf(seq) ==
    [e \in {seq[i] : i \in 1 .. Len(seq)} |->
        Cardinality({i \in 1 .. Len(seq) : seq[i] = e})]

Strip(call) ==
    [op |-> call.op, tree |-> call.tree, key |-> call.key, ret |-> call.ret,
     had |-> call.had, before |-> call.before]

\* the record of a call: its arguments, what it returned, whether the
\* container held the key and what for_each yielded when it was made, and
\* the call before it
Call(op, t, k, v, o, ret) ==
    [op |-> op, tree |-> t, key |-> k, value |-> v, other |-> o, ret |-> ret,
     had |-> k \in DOMAIN content[t],
     before |-> BagOf(EntriesOf(heap, root[t])),
     prev |-> Strip(last)]

\* how a call that met undefined behaviour can end: the build traps (a
\* failed assert aborts, a wild access faults) or goes on
Outcomes(m) ==
    IF m.ub = {} THEN {"go"}
    ELSE IF "null_deref" \in m.ub THEN {"trap"}
    ELSE {"trap", "go"}

Return(m, u, newRoot, newContent, newAlive, call) ==
    /\ calls' = calls \cup {call.op}
    /\ IF u = "trap"
       THEN /\ status' = "crashed"
            /\ last' = [call EXCEPT !.ret = "none"]
            /\ UNCHANGED <<heap, brk, root, content, alive>>
       ELSE /\ status' = "ok"
            /\ heap' = m.heap
            /\ brk' = m.brk
            /\ root' = newRoot
            /\ content' = newContent
            /\ alive' = newAlive
            /\ last' = call

\* no count has been asked for
NoCount == [occupation |-> {}, pos |-> 0, ret |-> -1]

\* after construction of the tree A
Constructed ==
    /\ heap = [a \in {} |-> 0]
    /\ brk = 1
    /\ root = [t \in Trees |-> nullptr]
    /\ alive = {"A"}
    /\ content = [t \in Trees |-> NoEntries]
    /\ status = "ok"
    /\ last = [op |-> "construct", tree |-> "A", key |-> 0, value |-> 0,
               other |-> "A", ret |-> "void", had |-> FALSE,
               before |-> BagOf(<<>>),
               prev |-> [op |-> "none", tree |-> "A", key |-> 0, ret |-> "void",
                         had |-> FALSE, before |-> BagOf(<<>>)]]
    /\ calls = {}
    /\ profile \in Profiles
    /\ pc = 0
    /\ free = 0

Init == Constructed /\ counting = NoCount

\* ------------------------------------------------------------------------
\* The public operations of HighsHashTree
\* ------------------------------------------------------------------------
Here == Machine(heap, brk)

\* bool insert(Args&&... args)
insert(t, k, v) ==
    /\ status = "ok"
    /\ t \in alive
    /\ Budget("insert", t, k, v)
    /\ LET r == insert_recurse(Here, root[t], Hash(k), 0, [key |-> k, value |-> v])
       IN  \E u \in Outcomes(r.m) :
             Return(r.m, u, [root EXCEPT ![t] = r.node],
                    [content EXCEPT ![t] = IF k \in DOMAIN @ THEN @ ELSE (k :> v) @@ @],
                    alive, Call("insert", t, k, v, t, r.ret))
    /\ UNCHANGED <<profile, counting>>

\* what a call that is left by std::bad_alloc leaves behind; the model does
\* not follow the program beyond the exception
Throw(m, call) ==
    /\ status' = "thrown"
    /\ heap' = m.heap
    /\ brk' = m.brk
    /\ last' = [call EXCEPT !.ret = "bad_alloc"]
    /\ calls' = calls \cup {call.op}
    /\ UNCHANGED <<root, content, alive, profile, counting>>

\* insert, the allocator being exhausted
insert_bad_alloc(t, k, v) ==
    /\ status = "ok"
    /\ t \in alive
    /\ Budget("insert", t, k, v)
    /\ LET r == insert_exhausted(Here, root[t], Hash(k), 0, [key |-> k, value |-> v])
       IN  /\ r.thrown
           /\ Throw(r.m, Call("insert", t, k, v, t, "none"))

\* erase, the allocator being exhausted
erase_bad_alloc(t, k) ==
    /\ status = "ok"
    /\ t \in alive
    /\ Budget("erase", t, k, 1)
    /\ LET r == erase_exhausted(Here, root[t], Hash(k), 0, k)
       IN  /\ r.thrown
           /\ Throw(r.m, Call("erase", t, k, 0, t, "none"))

\* void erase(const K& key)
erase(t, k) ==
    /\ status = "ok"
    /\ t \in alive
    /\ Budget("erase", t, k, 1)
    /\ LET r == erase_recurse(Here, root[t], Hash(k), 0, k)
       IN  \E u \in Outcomes(r.m) :
             Return(r.m, u, [root EXCEPT ![t] = r.node],
                    [content EXCEPT ![t] = [x \in (DOMAIN @) \ {k} |-> @[x]]],
                    alive, Call("erase", t, k, 0, t, "void"))
    /\ UNCHANGED <<profile, counting>>

\* a member function that hands out its result and resets the root it read
Observe_resets(call) ==
    /\ Unscripted
    /\ free' = free + 1
    /\ last' = call
    /\ calls' = calls \cup {call.op}
    /\ root' = [root EXCEPT ![call.tree] = nullptr]
    /\ UNCHANGED <<heap, brk, alive, content, status, profile, pc, counting>>

\* a const member function: nothing but the record of the call changes
Observe(call) ==
    /\ Unscripted
    /\ free' = free + 1
    /\ last' = call
    /\ calls' = calls \cup {call.op}
    /\ UNCHANGED <<heap, brk, root, alive, content, status, profile, pc, counting>>

\* bool contains(const K& key) const
contains(t, k) ==
    /\ status = "ok"
    /\ t \in alive
    /\ k \in Probes(profile)
    /\ Observe(Call("contains", t, k, 0, t,
                    find_recurse(heap, root[t], Hash(k), 0, k).found))

\* const ValueType* find(const K& key) const
find(t, k) ==
    /\ status = "ok"
    /\ t \in alive
    /\ k \in Probes(profile)
    /\ Observe(Call("find", t, k, 0, t, find_recurse(heap, root[t], Hash(k), 0, k)))

\* const HighsHashTableEntry<K, V>* find_common(const HighsHashTree& other) const
find_common(t, other) ==
    /\ status = "ok"
    /\ t \in alive
    /\ other \in alive
    /\ Observe(Call("find_common", t, 0, 0, other,
                    find_common_recurse(heap, root[t], root[other], 0)))

\* bool empty() const
empty(t) ==
    /\ status = "ok"
    /\ t \in alive
    /\ Observe(Call("empty", t, 0, 0, t, root[t].type = kEmpty))

\* bool for_each(F&& f) const, f returning true on the keys of F
for_each(t, F) ==
    /\ status = "ok"
    /\ t \in alive
    /\ F \subseteq Probes(profile)
    /\ Observe(Call("for_each", t, 0, 0, t,
                    for_each_recurse(heap, root[t], F,
                                     [visited |-> <<>>, ret |-> FALSE])))

\* void clear()
clear(t) ==
    /\ status = "ok"
    /\ t \in alive
    /\ Unscripted
    /\ free' = free + 1
    /\ \E uaf \in {"stale", "zero"} :
         LET m == destroy_recurse(Here, root[t], uaf)
         IN  \E u \in Outcomes(m) :
               Return(m, u, [root EXCEPT ![t] = nullptr],
                      [content EXCEPT ![t] = NoEntries],
                      alive, Call("clear", t, 0, 0, t, "void"))
    /\ UNCHANGED <<profile, pc, counting>>

\* HighsHashTree() = default
DefaultConstruct(t) ==
    /\ status = "ok"
    /\ t \notin alive
    /\ Unscripted
    /\ free' = free + 1
    /\ Return(Here, "go", [root EXCEPT ![t] = nullptr],
              [content EXCEPT ![t] = NoEntries],
              alive \cup {t}, Call("construct", t, 0, 0, t, "void"))
    /\ UNCHANGED <<profile, pc, counting>>

\* HighsHashTree(const HighsHashTree& other)
CopyConstruct(t, other) ==
    /\ status = "ok"
    /\ t \notin alive
    /\ other \in alive
    /\ Unscripted
    /\ free' = free + 1
    /\ LET r == copy_recurse(Here, root[other])
       IN  \E u \in Outcomes(r.m) :
             Return(r.m, u, [root EXCEPT ![t] = r.node],
                    [content EXCEPT ![t] = content[other]],
                    alive \cup {t}, Call("copy", t, 0, 0, other, "void"))
    /\ UNCHANGED <<profile, pc, counting>>

\* HighsHashTree(HighsHashTree&& other)
MoveConstruct(t, other) ==
    /\ status = "ok"
    /\ t \notin alive
    /\ other \in alive
    /\ Unscripted
    /\ free' = free + 1
    /\ Return(Here, "go", [root EXCEPT ![t] = root[other], ![other] = nullptr],
              [content EXCEPT ![t] = content[other], ![other] = NoEntries],
              alive \cup {t}, Call("move", t, 0, 0, other, "void"))
    /\ UNCHANGED <<profile, pc, counting>>

\* HighsHashTree& operator=(HighsHashTree&& other), on another tree
MoveAssign(t, other) ==
    /\ status = "ok"
    /\ t \in alive
    /\ other \in alive \ {t}
    /\ Unscripted
    /\ free' = free + 1
    /\ \E uaf \in {"stale", "zero"} :
         LET m == destroy_recurse(Here, root[t], uaf)
         IN  \E u \in Outcomes(m) :
               Return(m, u, [root EXCEPT ![t] = root[other], ![other] = nullptr],
                      [content EXCEPT ![t] = content[other], ![other] = NoEntries],
                      alive, Call("move_assign", t, 0, 0, other, "void"))
    /\ UNCHANGED <<profile, pc, counting>>

\* HighsHashTree& operator=(const HighsHashTree& other), on another tree
CopyAssign(t, other) ==
    /\ status = "ok"
    /\ t \in alive
    /\ other \in alive \ {t}
    /\ Unscripted
    /\ free' = free + 1
    /\ \E uaf \in {"stale", "zero"} :
         LET m == destroy_recurse(Here, root[t], uaf)
             r == copy_recurse(m, root[other])
         IN  \E u \in Outcomes(r.m) :
               Return(r.m, u, [root EXCEPT ![t] = r.node],
                      [content EXCEPT ![t] = content[other]],
                      alive, Call("copy_assign", t, 0, 0, other, "void"))
    /\ UNCHANGED <<profile, pc, counting>>

\* ~HighsHashTree()
Destruct(t) ==
    /\ status = "ok"
    /\ t \in alive
    /\ t # "A"
    /\ Unscripted
    /\ free' = free + 1
    /\ \E uaf \in {"stale", "zero"} :
         LET m == destroy_recurse(Here, root[t], uaf)
         IN  \E u \in Outcomes(m) :
               Return(m, u, [root EXCEPT ![t] = nullptr],
                      [content EXCEPT ![t] = NoEntries],
                      alive \ {t}, Call("destruct", t, 0, 0, t, "void"))
    /\ UNCHANGED <<profile, pc, counting>>

Next ==
    \/ \E t \in Trees, k \in Keys, v \in Values : insert(t, k, v)
    \/ \E t \in Trees, k \in Keys : erase(t, k)
    \/ \E t \in Trees, k \in Keys, v \in Values : insert_bad_alloc(t, k, v)
    \/ \E t \in Trees, k \in Keys : erase_bad_alloc(t, k)
    \/ \E t \in Trees, k \in Keys : contains(t, k)
    \/ \E t \in Trees, k \in Keys : find(t, k)
    \/ \E t \in Trees, other \in Trees : find_common(t, other)
    \/ \E t \in Trees : empty(t)
    \/ \E t \in Trees, F \in {{}} \cup {{k} : k \in Keys} : for_each(t, F)
    \/ \E t \in Trees : clear(t)
    \/ \E t \in Trees : DefaultConstruct(t)
    \/ \E t \in Trees, other \in Trees : CopyConstruct(t, other)
    \/ \E t \in Trees, other \in Trees : MoveConstruct(t, other)
    \/ \E t \in Trees, other \in Trees : MoveAssign(t, other)
    \/ \E t \in Trees, other \in Trees : CopyAssign(t, other)
    \/ \E t \in Trees : Destruct(t)

Spec == Init /\ [][Next]_vars

\* ------------------------------------------------------------------------
\* Occupation::num_set_after on its own: the occupation words are the
\* subsets of MaskBits, the positions all of 0 .. 63
\* ------------------------------------------------------------------------
MaskBits == {0, 1, 5, 31, 32, 62, 63}

InitCount ==
    /\ Constructed
    /\ profile = "deep"
    /\ counting \in [occupation : SUBSET MaskBits, pos : 0 .. (kBranchFactor - 1),
                      ret : {-1}]

\* int num_set_after(uint8_t pos) const
CountAfter ==
    /\ counting.ret = -1
    /\ counting' = [counting EXCEPT !.ret = num_set_after(counting.occupation,
                                                          counting.pos)]
    /\ UNCHANGED <<heap, brk, root, alive, content, status, last, calls, profile,
                   pc, free>>

NextCount == CountAfter

SpecCount == InitCount /\ [][NextCount]_vars

\* ------------------------------------------------------------------------
\* What the calls are measured against
\* ------------------------------------------------------------------------
\* what find(k) returns on tree t in this state
Lookup(t, k) == find_recurse(heap, root[t], Hash(k), 0, k)

\* k is in the container t: inserted, and not erased or cleared since
Holds(t, k) == k \in DOMAIN content[t]

\* the multiset of entries for_each hands out on tree t
Entries(t) == BagOf(EntriesOf(heap, root[t]))

\* the const member functions
ReadOps == {"contains", "find", "find_common", "empty", "for_each"}

\* the addresses of the nodes reachable from a NodePtr
RECURSIVE ReachChain(_, _)
ReachChain(h, iter) ==
    IF iter = 0 THEN {}
    ELSE IF iter \notin DOMAIN h THEN {iter}
    ELSE {iter} \cup ReachChain(h, h[iter].next)

RECURSIVE Reach(_, _)
Reach(h, node) ==
    IF node.type = kEmpty THEN {}
    ELSE IF node.ptr \notin DOMAIN h THEN {node.ptr}
    ELSE IF node.type = kListLeaf
    THEN {node.ptr} \cup ReachChain(h, h[node.ptr].first.next)
    ELSE IF node.type = kBranchNode
    THEN {node.ptr} \cup UNION {Reach(h, h[node.ptr].child[i]) :
                                 i \in 1 .. Len(h[node.ptr].child)}
    ELSE {node.ptr}

\* the node find_recurse arrives at when it has followed the chunks of hash
\* through the branch nodes: a leaf, or the empty NodePtr where a branch has
\* no child for the chunk
RECURSIVE descend(_, _, _, _)
descend(h, node, hash, hashPos) ==
    IF node.type # kBranchNode THEN node
    ELSE LET branch == h[node.ptr]
             chunk == get_hash_chunk(hash, hashPos)
             location == num_set_until(branch.occupation, chunk) - 1
         IN  IF ~OccTest(branch.occupation, chunk) THEN nullptr
             ELSE IF location + 1 \notin DOMAIN branch.child THEN nullptr
             ELSE descend(h, branch.child[location + 1], hash, hashPos + 1)

\* the inner leaves below node, each with the depth it is at
RECURSIVE InnerLeaves(_, _, _)
InnerLeaves(h, node, depth) ==
    IF IsInnerLeaf(node) THEN {[node |-> node, depth |-> depth]}
    ELSE IF node.type = kBranchNode
    THEN UNION {InnerLeaves(h, h[node.ptr].child[i], depth + 1) :
                  i \in 1 .. Len(h[node.ptr].child)}
    ELSE {}

\* the occupation mask of the inner leaf l has exactly the bits of the
\* chunks, at the depth of l, of the hashes of its entries
ExactOccupation(h, l) ==
    LET leaf == h[l.node.ptr]
    IN  leaf.occupation = {get_hash_chunk(Hash(leaf.entries[i].key), l.depth) :
                             i \in 1 .. leaf.size}

\* insert(k) on the root node finds a full leaf of class 4 that does not hold
\* k, and the branch node that replaces it gets one child
PushesDown(node, k) ==
    /\ node.type = kInnerLeafSizeClass4
    /\ heap[node.ptr].size = capacity(4)
    /\ find_entry(heap[node.ptr], Hash(k), 0, k) = 0
    /\ num_set(OccSet(heap[node.ptr].occupation, get_hash_chunk(Hash(k), 0))) = 1

\* the heap when insert(k) has pushed the full root leaf down, before the
\* insertion goes on at depth 1; the branch node is at address brk
PushedDown(node, k) ==
    LET occupation == OccSet(heap[node.ptr].occupation, get_hash_chunk(Hash(k), 0))
    IN  pushDown(New(Here, NewBranch(occupation, <<>>)), brk, occupation, node).heap

\* the branch nodes below node (node included), each with the depth it is at
RECURSIVE BranchNodes(_, _, _)
BranchNodes(h, node, depth) ==
    IF node.type # kBranchNode THEN {}
    ELSE {[node |-> node, depth |-> depth]}
           \cup UNION {BranchNodes(h, h[node.ptr].child[i], depth + 1) :
                         i \in 1 .. Len(h[node.ptr].child)}

\* the nodes below node (node included), each with the depth it is at
RECURSIVE NodesAt(_, _, _)
NodesAt(h, node, depth) ==
    IF node.type = kEmpty THEN {}
    ELSE IF node.type # kBranchNode THEN {[node |-> node, depth |-> depth]}
    ELSE {[node |-> node, depth |-> depth]}
           \cup UNION {NodesAt(h, h[node.ptr].child[i], depth + 1) :
                         i \in 1 .. Len(h[node.ptr].child)}

\* the sum of a sequence of numbers
RECURSIVE total(_)
total(seq) == IF seq = <<>> THEN 0 ELSE Head(seq) + total(Tail(seq))

\* the children of a branch node without the one of chunk c
remaining(branch, c) ==
    [i \in 1 .. (Len(branch.child) - 1) |->
        IF i < num_set_until(branch.occupation, c) THEN branch.child[i]
        ELSE branch.child[i + 1]]

\* the entries below node, as a set
EntrySet(h, node) == {EntriesOf(h, node)[i] : i \in 1 .. Len(EntriesOf(h, node))}

\* the number of nodes of the chain of a list leaf, the head included
chainLength(h, leaf) == 1 + Cardinality(ReachChain(h, h[leaf.ptr].first.next))

\* the node at depth `depth' on the way the chunks of hash lead from node,
\* nullptr if the way ends above that depth
RECURSIVE pathNode(_, _, _, _, _)
pathNode(h, node, hash, hashPos, depth) ==
    IF hashPos = depth THEN node
    ELSE IF node.type # kBranchNode THEN nullptr
    ELSE LET branch == h[node.ptr]
             chunk == get_hash_chunk(hash, hashPos)
         IN  IF ~OccTest(branch.occupation, chunk) THEN nullptr
             ELSE pathNode(h, branch.child[num_set_until(branch.occupation, chunk)],
                           hash, hashPos + 1, depth)

\* two trees have the same node types, and their branch nodes the same
\* occupation and number of slots
RECURSIVE SameShape(_, _, _)
SameShape(h, a, b) ==
    /\ a.type = b.type
    /\ a.type = kBranchNode =>
          /\ h[a.ptr].occupation = h[b.ptr].occupation
          /\ Len(h[a.ptr].child) = Len(h[b.ptr].child)
          /\ \A i \in 1 .. Len(h[a.ptr].child) :
                SameShape(h, h[a.ptr].child[i], h[b.ptr].child[i])

\* the leaves below node, inner leaves and list leaves
RECURSIVE Leaves(_, _)
Leaves(h, node) ==
    IF node.type = kEmpty THEN {}
    ELSE IF node.type = kBranchNode
    THEN UNION {Leaves(h, h[node.ptr].child[i]) : i \in 1 .. Len(h[node.ptr].child)}
    ELSE {node}

\* the keys of the entries of a leaf
KeysOf(h, leaf) ==
    LET all == EntriesOf(h, leaf) IN {all[i].key : i \in 1 .. Len(all)}

\* how many entries of key k for_each finds below node
Occurrences(h, node, k) ==
    LET all == EntriesOf(h, node)
    IN  Cardinality({i \in 1 .. Len(all) : all[i].key = k})

\* ------------------------------------------------------------------------
\* The claims
\* ------------------------------------------------------------------------
\* C1: while only inserts (and lookups) have been made, find and contains
\* succeed on exactly the keys inserted, with the value inserted, and fail
\* on every other key, whatever chunks or hashes the keys share.
C1_InsertedKeysFound ==
    (status = "ok" /\ calls \subseteq ({"insert"} \cup ReadOps)) =>
        \A k \in Keys :
            Lookup("A", k) = IF Holds("A", k)
                             THEN Found([key |-> k, value |-> content["A"][k]])
                             ELSE NotFound

\* 31 keys with equal chunks 0..9 were inserted and key 2 is not found
C1_LostKey ==
    /\ status = "ok"
    /\ calls = {"insert"}
    /\ Holds("A", 2)
    /\ ~Lookup("A", 2).found

\* C2: once erase(k) has returned, contains(k) is false, also where k was the
\* head, a middle node or the tail of a list leaf's chain.
C2_ErasedKeyGone ==
    (status = "ok" /\ last.op = "erase") => ~Lookup(last.tree, last.key).found

\* erase(k) has returned for the tail of a chain and k is still found
C2_TailStillFound ==
    /\ status = "ok"
    /\ last.op = "erase"
    /\ last.had
    /\ Lookup(last.tree, last.key).found

\* C3: erase(k) changes for no other key whether it is found and with which
\* value, whatever the erase does to the nodes, and also when it is repeated.
C3_EraseKeepsOthers ==
    [][(status' = "ok" /\ last'.op = "erase") =>
          \A k \in Keys \ {last'.key} :
              find_recurse(heap', root'[last'.tree], Hash(k), 0, k)
                  = Lookup(last'.tree, k)]_vars

\* erase(33) has been made twice on the list leaf of keys 32 and 33, and
\* key 32 is no longer found
C3_OtherKeyRemoved ==
    /\ status = "ok"
    /\ profile = "deep"
    /\ pc = 33
    /\ last.op = "erase"
    /\ last.key = 33
    /\ last.prev.op = "erase"
    /\ last.prev.key = 33
    /\ Holds("A", 32)
    /\ ~Lookup("A", 32).found

\* C4: insert(k) returns true exactly when k was not in the container when
\* it was called, and k is found once it has returned.
C4_InsertReturn ==
    (status = "ok" /\ last.op = "insert") =>
        /\ last.ret = ~last.had
        /\ Lookup(last.tree, last.key).found

\* insert(k) has returned true for a key the container held
C4_TrueForPresent ==
    /\ status = "ok"
    /\ last.op = "insert"
    /\ last.had
    /\ last.ret = TRUE

\* C5: insert of a key that is in the container returns false and leaves
\* the tree as it was: no node is written, allocated or freed.
C5_DuplicateInsertNoChange ==
    [][(status' = "ok" /\ last'.op = "insert" /\ last'.had) =>
          /\ last'.ret = FALSE
          /\ heap' = heap
          /\ root' = root]_vars

\* insert of a key the container held has added an entry
C5_DuplicateAdded ==
    /\ status = "ok"
    /\ last.op = "insert"
    /\ last.had
    /\ Entries(last.tree) # last.before

\* C6: erase(k) for a key that is not in the container leaves the whole tree
\* unchanged.
C6_EraseAbsentNoChange ==
    [][(status' = "ok" /\ last'.op = "erase" /\ ~last'.had) =>
          /\ heap' = heap
          /\ root' = root]_vars

\* erase of a key the container did not hold has changed what for_each yields
C6_AbsentEraseChanged ==
    /\ status = "ok"
    /\ last.op = "erase"
    /\ ~last.had
    /\ Entries(last.tree) # last.before

\* C7: for a key k that is not in the container, insert(k) followed by
\* erase(k) leaves for_each yielding the multiset of entries it yielded
\* before the insert.
C7_InsertEraseRoundTrip ==
    (/\ status = "ok"
     /\ last.op = "erase"
     /\ last.prev.op = "insert"
     /\ last.prev.tree = last.tree
     /\ last.prev.key = last.key
     /\ ~last.prev.had) =>
        Entries(last.tree) = last.prev.before

\* insert(k); erase(k) on a list leaf has left k in the chain
C7_RoundTripLeftKey ==
    /\ status = "ok"
    /\ last.op = "erase"
    /\ last.prev.op = "insert"
    /\ last.prev.tree = last.tree
    /\ last.prev.key = last.key
    /\ ~last.prev.had
    /\ \E e \in DOMAIN Entries(last.tree) : e.key = last.key

\* C8: find_common returns an entry exactly when some key is in both
\* containers, and the key of the entry returned is in both.
C8_FindCommonSound ==
    status = "ok" =>
        \A t \in alive, other \in alive :
            LET match == find_common_recurse(heap, root[t], root[other], 0)
                common == DOMAIN content[t] \cap DOMAIN content[other]
            IN  /\ (match # <<>>) <=> (common # {})
                /\ match # <<>> => match[1].key \in common

\* the two containers hold a common key and find_common returns nullptr
C8_CommonKeyMissed ==
    /\ status = "ok"
    /\ alive = Trees
    /\ DOMAIN content["A"] \cap DOMAIN content["B"] # {}
    /\ find_common_recurse(heap, root["A"], root["B"], 0) = <<>>

\* C9: the copy constructor and the copy assignment complete and leave the
\* copy with the multiset of entries of the source, also for the empty tree
\* and for a list leaf with a single entry.
C9_CopyComplete ==
    [][last'.op \in {"copy", "copy_assign"} =>
          /\ status' = "ok"
          /\ BagOf(EntriesOf(heap', root'[last'.tree])) = Entries(last'.other)]_vars

\* a copy of a tree that has a list leaf with one entry has not returned
C9_CopyCrashed ==
    /\ status = "crashed"
    /\ last.op \in {"copy", "copy_assign"}
    /\ root[last.other].type # kEmpty

\* C10: with two trees alive, such as a tree and its copy, an insert, erase
\* or clear on one of them frees and writes no node of the other, leaves the
\* entries of the other unchanged, and leaves no node reachable from both.
C10_CopiesIndependent ==
    [][(status' = "ok" /\ last'.op \in {"insert", "erase", "clear"}) =>
          \A other \in alive \ {last'.tree} :
              /\ root'[other] = root[other]
              /\ Reach(heap, root[other]) \subseteq DOMAIN heap'
              /\ \A a \in Reach(heap, root[other]) : heap'[a] = heap[a]
              /\ EntriesOf(heap', root'[other]) = EntriesOf(heap, root[other])
              /\ Reach(heap', root'[other]) \cap Reach(heap', root'[last'.tree]) = {}]_vars

\* a tree with a branch node has been copied and then an insert or erase on
\* the source, or on the copy, has returned
C10_CopyThenMutate ==
    /\ status = "ok"
    /\ alive = Trees
    /\ last.prev.op \in {"copy", "copy_assign"}
    /\ last.op \in {"insert", "erase"}
    /\ root["A"].type = kBranchNode
    /\ root["B"].type = kBranchNode
    /\ Entries(last.tree) # last.before

\* C11: after any calls, empty() is true exactly when for_each visits
\* nothing, and an erase that takes the last key out of the container leaves
\* the root empty.
C11_EmptyIffNoEntry ==
    status = "ok" =>
        \A t \in alive :
            /\ (root[t].type = kEmpty) <=> (EntriesOf(heap, root[t]) = <<>>)
            /\ (last.op = "erase" /\ last.tree = t /\ DOMAIN content[t] = {})
                   => root[t].type = kEmpty

\* every key inserted has been erased, the last one just now, and the root
\* is not the empty variant
C11_RootLeftAfterLastErase ==
    /\ status = "ok"
    /\ last.op = "erase"
    /\ last.had
    /\ DOMAIN content[last.tree] = {}
    /\ root[last.tree].type # kEmpty

\* C12: clear() returns on every tree and leaves the root empty and no key
\* findable, and an insert that follows it does what it does on a tree just
\* constructed: it returns true and leaves a class-1 leaf with the one entry.
C12_ClearResets ==
    [][/\ last'.op = "clear" =>
            /\ status' = "ok"
            /\ root'[last'.tree].type = kEmpty
            /\ \A k \in Keys :
                  ~find_recurse(heap', root'[last'.tree], Hash(k), 0, k).found
       /\ (status' = "ok" /\ last'.op = "insert" /\ last.op = "clear"
             /\ last'.tree = last.tree) =>
            /\ last'.ret = TRUE
            /\ root'[last'.tree].type = kInnerLeafSizeClass1
            /\ EntriesOf(heap', root'[last'.tree])
                  = <<[key |-> last'.key, value |-> last'.value]>>]_vars

\* clear() on a tree that has a list leaf with a chain has not returned
C12_ClearCrashed ==
    /\ status = "crashed"
    /\ last.op = "clear"
    /\ root[last.tree].type = kBranchNode

\* C13: for_each with a callback that never returns true calls it exactly
\* once for each entry the container holds, and returns false.
C13_ForEachVisitsEachOnce ==
    status = "ok" =>
        \A t \in alive :
            LET r == for_each_recurse(heap, root[t], {},
                                      [visited |-> <<>>, ret |-> FALSE])
                held == {[key |-> k, value |-> content[t][k]] : k \in DOMAIN content[t]}
            IN  /\ r.ret = FALSE
                /\ BagOf(r.visited) = [e \in held |-> 1]

\* the callback is called twice with the key of one entry of the container
C13_VisitedTwice ==
    /\ status = "ok"
    /\ \E e \in DOMAIN Entries("A") :
          /\ Holds("A", e.key)
          /\ Entries("A")[e] = 2

\* C14: with a callback that returns true on the entries of key k, for_each
\* makes the calls it makes with a callback that never returns true up to
\* the first entry of key k, makes no call after it, and returns true; where
\* no entry has key k it makes all the calls and returns false.
C14_ForEachHalts ==
    status = "ok" =>
        \A t \in alive, k \in Keys :
            LET all == EntriesOf(heap, root[t])
                r == for_each_recurse(heap, root[t], {k},
                                      [visited |-> <<>>, ret |-> FALSE])
                n == Len(r.visited)
                hits == {i \in 1 .. Len(all) : all[i].key = k}
            IN  /\ n <= Len(all)
                /\ r.visited = SubSeq(all, 1, n)
                /\ r.ret = (hits # {})
                /\ IF hits = {} THEN n = Len(all)
                   ELSE \A i \in hits : n <= i

\* for_each on a tree with a branch node has returned true before the
\* callback was called for every entry
C14_HaltedEarly ==
    /\ status = "ok"
    /\ last.op = "for_each"
    /\ root[last.tree].type = kBranchNode
    /\ last.ret.ret = TRUE
    /\ Len(last.ret.visited) < Len(EntriesOf(heap, root[last.tree]))

\* C15: a move construction or move assignment from another tree returns,
\* leaves the destination with the entries the source had and the source
\* empty with no key findable, and a move assignment frees every node the
\* destination had.
C15_MoveTransfers ==
    [][last'.op \in {"move", "move_assign"} =>
          /\ status' = "ok"
          /\ BagOf(EntriesOf(heap', root'[last'.tree])) = Entries(last'.other)
          /\ root'[last'.other].type = kEmpty
          /\ \A k \in Keys :
                ~find_recurse(heap', root'[last'.other], Hash(k), 0, k).found
          /\ last'.op = "move_assign" =>
                Reach(heap, root[last'.tree]) \cap DOMAIN heap' = {}]_vars

\* a move assignment to a tree that has a list leaf with a chain has not
\* returned
C15_MoveAssignCrashed ==
    /\ status = "crashed"
    /\ last.op = "move_assign"
    /\ root[last.tree].type = kBranchNode

C17_EntriesOnTheirPath ==
    status = "ok" =>
        \A t \in alive, k \in Keys :
            Occurrences(heap, descend(heap, root[t], Hash(k), 0), k)
                = Occurrences(heap, root[t], k)

\* only inserts have been made, and an entry lies where the chunks of its
\* hash do not lead
C17_EntryOffPath ==
    /\ status = "ok"
    /\ calls = {"insert"}
    /\ \E k \in Keys :
          /\ Occurrences(heap, root["A"], k) = 1
          /\ descend(heap, root["A"], Hash(k), 0).type = kEmpty

C19_LeafSizeInRange ==
    status = "ok" =>
        \A t \in alive :
            \A l \in InnerLeaves(heap, root[t], 0) :
                LET leaf == heap[l.node.ptr]
                IN  /\ 1 <= leaf.size
                    /\ leaf.size <= capacity(SizeClassOf(l.node))
                    /\ Len(leaf.entries) = leaf.size

\* an erase has left an inner leaf of size 0 in the tree
C19_EmptyLeafLeft ==
    /\ status = "ok"
    /\ last.op = "erase"
    /\ \E l \in InnerLeaves(heap, root[last.tree], 0) : heap[l.node.ptr].size = 0

\* C20: in every inner leaf the keys of the entries ascend strictly, and no
\* key is in two leaves of one tree.
C20_SortedAndDisjoint ==
    status = "ok" =>
        \A t \in alive :
            /\ \A l \in InnerLeaves(heap, root[t], 0) :
                  LET leaf == heap[l.node.ptr]
                  IN  \A i \in 1 .. leaf.size - 1 :
                          leaf.entries[i].key < leaf.entries[i + 1].key
            /\ \A l1 \in Leaves(heap, root[t]), l2 \in Leaves(heap, root[t]) :
                  l1 # l2 => KeysOf(heap, l1) \cap KeysOf(heap, l2) = {}

\* an insert has returned and its key is in two leaves of the tree
C20_KeyInTwoLeaves ==
    /\ status = "ok"
    /\ last.op = "insert"
    /\ \E l1 \in Leaves(heap, root[last.tree]), l2 \in Leaves(heap, root[last.tree]) :
          /\ l1 # l2
          /\ last.key \in KeysOf(heap, l1) \cap KeysOf(heap, l2)

\* C21 as claimed: every branch node of a tree has at least two children.
C21_BranchHasTwoChildren ==
    status = "ok" =>
        \A t \in alive :
            \A b \in BranchNodes(heap, root[t], 0) :
                num_set(heap[b.node.ptr].occupation) >= 2

\* C21 amended: every branch node of a tree has at least one child; a
\* branch node with one child is what a burst leaves where all entries and
\* the new key have the same chunk.
C21_BranchHasChild ==
    status = "ok" =>
        \A t \in alive :
            \A b \in BranchNodes(heap, root[t], 0) :
                /\ num_set(heap[b.node.ptr].occupation) >= 1
                /\ Len(heap[b.node.ptr].child) = num_set(heap[b.node.ptr].occupation)

\* an insert has returned and left a branch node with one child
C21_SingleChildBranch ==
    /\ status = "ok"
    /\ last.op = "insert"
    /\ last.ret = TRUE
    /\ \E b \in BranchNodes(heap, root[last.tree], 0) :
          num_set(heap[b.node.ptr].occupation) = 1

\* C22: after every public operation no child slot of a branch node holds
\* the empty variant: every slot points to a list leaf, an inner leaf or a
\* branch node.
C22_NoEmptyChild ==
    status = "ok" =>
        \A t \in alive :
            \A b \in BranchNodes(heap, root[t], 0) :
                \A i \in 1 .. Len(heap[b.node.ptr].child) :
                    heap[b.node.ptr].child[i].type # kEmpty

\* an insert has returned and a branch node of the tree has an empty slot
C22_EmptySlot ==
    /\ status = "ok"
    /\ last.op = "insert"
    /\ last.ret = TRUE
    /\ \E b \in BranchNodes(heap, root[last.tree], 0) :
          \E i \in 1 .. Len(heap[b.node.ptr].child) :
              heap[b.node.ptr].child[i].type = kEmpty

\* C23: the child for chunk c of a branch node is at index
\* popcount(occupation >> c) - 1 of an array of popcount(occupation) slots,
\* and the operations agree on it: the key insert has stored is where the
\* chunks of its hash lead by that index; insert and erase leave the child of
\* every other chunk of a branch node on the way at the index of its chunk,
\* whether they add or remove a slot; find returns what is in the leaf that
\* index leads to; the entry find_common returns is in both trees; a copy has the occupation and the slots of its source;
\* clear frees every branch node and the node of every slot.
C23_ChildIndexing ==
    [][status' = "ok" =>
        LET t == last'.tree
            k == last'.key
        IN  /\ \A x \in alive' :
                  \A b \in BranchNodes(heap', root'[x], 0) :
                      Len(heap'[b.node.ptr].child) = num_set(heap'[b.node.ptr].occupation)
            /\ (last'.op = "insert" /\ last'.ret = TRUE) =>
                  k \in KeysOf(heap', descend(heap', root'[t], Hash(k), 0))
            /\ last'.op \in {"insert", "erase"} =>
                  \A d \in 0 .. (kMaxDepth - 1) :
                      LET old == pathNode(heap, root[t], Hash(k), 0, d)
                          new == pathNode(heap', root'[t], Hash(k), 0, d)
                      IN  (old.type = kBranchNode /\ new.type = kBranchNode) =>
                            \A c \in (heap[old.ptr].occupation
                                        \cap heap'[new.ptr].occupation)
                                        \ {get_hash_chunk(Hash(k), d)} :
                                heap'[new.ptr].child[num_set_until(heap'[new.ptr].occupation, c)]
                                  = heap[old.ptr].child[num_set_until(heap[old.ptr].occupation, c)]
            /\ last'.op = "find" =>
                  last'.ret.found = (k \in KeysOf(heap, descend(heap, root[t], Hash(k), 0)))
            /\ (last'.op = "find_common" /\ last'.ret # <<>>) =>
                  /\ Occurrences(heap, root[t], last'.ret[1].key) > 0
                  /\ Occurrences(heap, root[last'.other], last'.ret[1].key) > 0
            /\ last'.op \in {"copy", "copy_assign"} =>
                  SameShape(heap', root'[t], root'[last'.other])
            /\ last'.op = "clear" =>
                  \A b \in BranchNodes(heap, root[t], 0) :
                      /\ b.node.ptr \notin DOMAIN heap'
                      /\ \A i \in 1 .. Len(heap[b.node.ptr].child) :
                            \/ heap[b.node.ptr].child[i].type = kEmpty
                            \/ heap[b.node.ptr].child[i].ptr \notin DOMAIN heap']_vars

\* an insert has added a child to a branch node in front of two others
C23_ChildAddedInFront ==
    /\ status = "ok"
    /\ last.op = "insert"
    /\ last.ret = TRUE
    /\ root[last.tree].type = kBranchNode
    /\ LET branch == heap[root[last.tree].ptr]
           chunk == get_hash_chunk(Hash(last.key), 0)
       IN  /\ num_set(branch.occupation) = 3
           /\ num_set_until(branch.occupation, chunk) = 1
           /\ KeysOf(heap, branch.child[1]) = {last.key}

\* C24: every list leaf has count >= 1 and count equal to the number of
\* nodes of its chain, the head included; so an erase of the head, of a
\* middle node or of the tail takes one node off the chain and one off count.
C24_CountIsChainLength ==
    status = "ok" =>
        \A t \in alive :
            \A leaf \in Leaves(heap, root[t]) :
                leaf.type = kListLeaf =>
                    /\ heap[leaf.ptr].count >= 1
                    /\ heap[leaf.ptr].count = chainLength(heap, leaf)

\* erase has returned and a list leaf has a count below the number of nodes
\* of its chain
C24_CountBelowChain ==
    /\ status = "ok"
    /\ last.op = "erase"
    /\ last.had
    /\ \E leaf \in Leaves(heap, root[last.tree]) :
          /\ leaf.type = kListLeaf
          /\ heap[leaf.ptr].count < chainLength(heap, leaf)
          /\ last.key \in KeysOf(heap, leaf)

\* C25: list leaves are at depth kMaxDepth only, inner leaves and branch
\* nodes at depths below kMaxDepth only, whatever bursts and merges made them.
C25_LeafKindByDepth ==
    status = "ok" =>
        \A t \in alive :
            \A n \in NodesAt(heap, root[t], 0) :
                IF n.node.type = kListLeaf THEN n.depth = kMaxDepth
                ELSE n.depth < kMaxDepth

\* an erase has merged the list leaves below a branch node of depth
\* kMaxDepth - 1 into an inner leaf at that depth
C25_ListsMergedBack ==
    /\ status = "ok"
    /\ last.op = "erase"
    /\ last.prev.op \in {"insert", "erase"}
    /\ \E n \in NodesAt(heap, root[last.tree], 0) :
          /\ IsInnerLeaf(n.node)
          /\ n.depth = kMaxDepth - 1
          /\ heap[n.node.ptr].size >= 1

C27_ListBurstByOwnChunk ==
    [][(status' = "ok" /\ last'.op = "insert" /\ last'.ret = TRUE) =>
        LET t == last'.tree
            k == last'.key
            d == kMaxDepth - 1
            leaf == descend(heap, root[t], Hash(k), 0)
            old == pathNode(heap, root[t], Hash(k), 0, d)
            new == pathNode(heap', root'[t], Hash(k), 0, d)
        IN  (leaf.type = kInnerLeafSizeClass4 /\ old.type # kBranchNode
                /\ new.type = kBranchNode) =>
              \A c \in 0 .. (kBranchFactor - 1) :
                  LET keys == {x \in KeysOf(heap, leaf) \cup {k} :
                                 get_hash_chunk(Hash(x), d) = c}
                      branch == heap'[new.ptr]
                      child == branch.child[num_set_until(branch.occupation, c)]
                  IN  IF keys = {} THEN ~OccTest(branch.occupation, c)
                      ELSE /\ OccTest(branch.occupation, c)
                           /\ child.type = kListLeaf
                           /\ KeysOf(heap', child) = keys]_vars

\* the burst at depth kMaxDepth - 1 has put an entry into the list leaf of a
\* chunk that is not the entry's
C27_EntryInOtherList ==
    /\ status = "ok"
    /\ last.op = "insert"
    /\ last.ret = TRUE
    /\ last.prev.op = "insert"
    /\ pc = 31
    /\ free = 0
    /\ \E n \in NodesAt(heap, root[last.tree], 0) :
          /\ n.node.type = kBranchNode
          /\ n.depth = kMaxDepth - 1
          /\ \E c \in heap[n.node.ptr].occupation :
                LET child == heap[n.node.ptr].child[num_set_until(heap[n.node.ptr].occupation, c)]
                IN  /\ child.type = kListLeaf
                    /\ \E x \in KeysOf(heap, child) :
                          get_hash_chunk(Hash(x), kMaxDepth - 1) # c

\* C28: when an insert bursts a full class-4 leaf, every branch node it makes
\* on the way of the new key has as occupation the chunks that the 30 entries
\* and the new entry have at the depth of that branch node, also the branch
\* node made one level deeper after the leaf was pushed down as single child.
C28_BurstOccupationIsUnion ==
    [][(status' = "ok" /\ last'.op = "insert" /\ last'.ret = TRUE) =>
        LET t == last'.tree
            k == last'.key
            leaf == descend(heap, root[t], Hash(k), 0)
        IN  leaf.type = kInnerLeafSizeClass4 =>
              \A d \in 0 .. (kMaxDepth - 1) :
                  LET old == pathNode(heap, root[t], Hash(k), 0, d)
                      new == pathNode(heap', root'[t], Hash(k), 0, d)
                  IN  (old.type # kBranchNode /\ new.type = kBranchNode) =>
                        heap'[new.ptr].occupation
                          = {get_hash_chunk(Hash(x), d) : x \in KeysOf(heap, leaf) \cup {k}}]_vars

\* an insert has pushed the full root leaf down and burst it one level
\* deeper, and the branch node made there has no bit for the chunk of one of
\* the entries below it
C28_BitMissing ==
    /\ status = "ok"
    /\ last.op = "insert"
    /\ last.ret = TRUE
    /\ root[last.tree].type = kBranchNode
    /\ num_set(heap[root[last.tree].ptr].occupation) = 1
    /\ LET below == heap[root[last.tree].ptr].child[1]
       IN  /\ below.type = kBranchNode
           /\ \E i \in 1 .. Len(EntriesOf(heap, below)) :
                 ~OccTest(heap[below.ptr].occupation,
                          get_hash_chunk(Hash(EntriesOf(heap, below)[i].key), 1))

\* C29 as claimed: with keys that have chunk 0 at depths 0 and 1 and their
\* own chunk at depth 2, the root is a branch node once 25 keys are inserted.
C29_RootBranchAfter25 ==
    (status = "ok" /\ profile = "level" /\ pc = 25) => root["A"].type = kBranchNode

\* C29 amended: after the 25 inserts the root is an InnerLeaf<4> holding the
\* 25 entries and every one of the 25 keys is found; an insert turns a root
\* that is not a branch node into one only if the root is an InnerLeaf<4> with
\* kLeafBurstThreshold (30) entries.
C29_RootLeafUntilFull ==
    [][status' = "ok" =>
        /\ (profile = "level" /\ pc' = 25) =>
              /\ root'["A"].type = kInnerLeafSizeClass4
              /\ heap'[root'["A"].ptr].size = 25
              /\ \A k \in 1 .. 25 :
                    find_recurse(heap', root'["A"], Hash(k), 0, k)
                        = Found([key |-> k, value |-> 1])
        /\ (last'.op = "insert" /\ root[last'.tree].type # kBranchNode
               /\ root'[last'.tree].type = kBranchNode) =>
              /\ root[last'.tree].type = kInnerLeafSizeClass4
              /\ heap[root[last'.tree].ptr].size = kLeafBurstThreshold]_vars

\* the 25th key has been inserted and the root holds 25 entries
C29_TwentyFiveInserted ==
    /\ status = "ok"
    /\ profile = "level"
    /\ pc = 25
    /\ last.op = "insert"
    /\ last.key = 25
    /\ last.ret = TRUE
    /\ Len(EntriesOf(heap, root["A"])) = 25

C32_OtherChildrenKept ==
    [][(status' = "ok" /\ last'.op \in {"insert", "erase"}) =>
        \A d \in 0 .. (kMaxDepth - 1) :
            LET t == last'.tree
                c == get_hash_chunk(Hash(last'.key), d)
                old == pathNode(heap, root[t], Hash(last'.key), 0, d)
                new == pathNode(heap', root'[t], Hash(last'.key), 0, d)
            IN  (/\ old.type = kBranchNode
                 /\ new.type = kBranchNode
                 /\ OccTest(heap[old.ptr].occupation, c)
                      # OccTest(heap'[new.ptr].occupation, c)) =>
                  /\ heap'[new.ptr].occupation \ {c} = heap[old.ptr].occupation \ {c}
                  /\ \A h \in heap[old.ptr].occupation \ {c} :
                        LET was == heap[old.ptr].child[num_set_until(heap[old.ptr].occupation, h)]
                            is == heap'[new.ptr].child[num_set_until(heap'[new.ptr].occupation, h)]
                        IN  /\ is = was
                            /\ was.type # kEmpty => heap'[is.ptr] = heap[was.ptr]]_vars

\* an insert has added the eighth child to the root branch node, which takes
\* an allocation of another size than seven children do
C32_MovedToLargerBucket ==
    /\ status = "ok"
    /\ last.op = "insert"
    /\ last.ret = TRUE
    /\ root[last.tree].type = kBranchNode
    /\ LET branch == heap[root[last.tree].ptr]
           n == Len(branch.child)
       IN  /\ getBranchNodeSize(n) # getBranchNodeSize(n - 1)
           /\ KeysOf(heap, branch.child[num_set_until(branch.occupation,
                                             get_hash_chunk(Hash(last.key), 0))])
                 = {last.key}

\* C33: after every public operation the nodes allocated and not freed are
\* exactly the nodes reachable from the roots of the live trees, and no node
\* is reachable from two roots: nothing is leaked, nothing referenced is freed.
C33_AllocatedIsReachable ==
    status = "ok" =>
        /\ DOMAIN heap = UNION {Reach(heap, root[t]) : t \in alive}
        /\ \A t \in alive : \A u \in alive \ {t} :
              Reach(heap, root[t]) \cap Reach(heap, root[u]) = {}

\* an erase has merged the children of a branch node into a leaf, and a list
\* leaf is still allocated that no root reaches
C33_ListLeafLeaked ==
    /\ status = "ok"
    /\ last.op = "erase"
    /\ IsInnerLeaf(pathNode(heap, root[last.tree], Hash(last.key), 0, kMaxDepth - 1))
    /\ \E a \in DOMAIN heap \ UNION {Reach(heap, root[t]) : t \in alive} :
          "count" \in DOMAIN heap[a]

\* C34: in every state, destroying a live tree (clear, destructor, the
\* assignments) reads no node it has freed, and copying it dereferences no
\* null link and does not reach the assert of copy_recurse, whatever list
\* leaves the tree has and also when it is empty.
C34_NoFreedOrNullAccess ==
    status = "ok" =>
        \A t \in alive :
            /\ \A uaf \in {"stale", "zero"} :
                  "use_after_free" \notin destroy_recurse(Here, root[t], uaf).ub
            /\ copy_recurse(Here, root[t]).m.ub \cap {"null_deref", "assert_false"} = {}

\* the destructor of a tree that has a list leaf with a chain has read a
\* freed chain node and has not returned
C34_DestructorCrashed ==
    /\ status = "crashed"
    /\ last.op = "destruct"
    /\ \E leaf \in Leaves(heap, root[last.tree]) :
          /\ leaf.type = kListLeaf
          /\ heap[leaf.ptr].first.next # 0

\* ------------------------------------------------------------------------
\* C35: child indices
\* ------------------------------------------------------------------------
\* the child indices find_recurse and erase_recurse compute on the way to the
\* hash are indices of the child array they are applied to
RECURSIVE descentInRange(_, _, _, _)
descentInRange(h, node, hash, hashPos) ==
    IF node.type # kBranchNode THEN TRUE
    ELSE LET branch == h[node.ptr]
             chunk == get_hash_chunk(hash, hashPos)
             location == num_set_until(branch.occupation, chunk) - 1
         IN  \/ ~OccTest(branch.occupation, chunk)
             \/ /\ location \in 0 .. (num_set(branch.occupation) - 1)
                /\ location < Len(branch.child)
                /\ descentInRange(h, branch.child[location + 1], hash, hashPos + 1)

\* C35: every child index num_set_until(chunk) - 1 computed by insert (the
\* size counting and the redistribution of a burst included), erase, find
\* and find_common lies in 0 .. popcount(occupation) - 1 of the branch it
\* indexes: no call indexes a child array below 0 or past its end
C35_ChildIndexInRange ==
    [][/\ last'.op = "insert" =>
            "oob_index" \notin
                insert_recurse(Here, root[last'.tree], Hash(last'.key), 0,
                               [key |-> last'.key, value |-> last'.value]).m.ub
       /\ last'.op \in {"erase", "find", "contains"} =>
            descentInRange(heap, root[last'.tree], Hash(last'.key), 0)
       /\ last'.op = "find_common" =>
            \A t \in {last'.tree, last'.other} :
                \A n \in BranchNodes(heap, root[t], 0) :
                    LET branch == heap[n.node.ptr]
                    IN  \A pos \in branch.occupation :
                            /\ num_set_until(branch.occupation, pos) - 1
                                  \in 0 .. (num_set(branch.occupation) - 1)
                            /\ num_set_until(branch.occupation, pos) <= Len(branch.child)]_vars

\* an insert has pushed a full leaf one level down and has burst it there
\* with an entry whose chunk lies above every bit of the occupation
C35_IndexBelowZero ==
    /\ last.op = "insert"
    /\ profile = "stale"
    /\ pc = 31
    /\ status = "crashed"

\* ------------------------------------------------------------------------
\* C36: the precondition of insert_entry
\* ------------------------------------------------------------------------
\* C36: assert(size < capacity()) of InnerLeaf::insert_entry holds at every
\* call: no insert and no erase (promotion, demotion, burst redistribution,
\* merge-back) inserts an entry into a leaf that is at its capacity
C36_InsertEntryHasRoom ==
    [][/\ last'.op = "insert" =>
            "assert_capacity" \notin
                insert_recurse(Here, root[last'.tree], Hash(last'.key), 0,
                               [key |-> last'.key, value |-> last'.value]).m.ub
       /\ last'.op = "erase" =>
            "assert_capacity" \notin
                erase_recurse(Here, root[last'.tree], Hash(last'.key), 0,
                              last'.key).m.ub]_vars

\* an erase has merged a list leaf whose chain is longer than its count into
\* an inner leaf chosen for the count, and the call has not returned
C36_MergedChainTooLong ==
    /\ status = "crashed"
    /\ last.op = "erase"
    /\ \E leaf \in Leaves(heap, root[last.tree]) :
          /\ leaf.type = kListLeaf
          /\ heap[leaf.ptr].count < kLeafBurstThreshold
          /\ chainLength(heap, leaf) > kLeafBurstThreshold

\* ------------------------------------------------------------------------
\* C37: allocation failure
\* ------------------------------------------------------------------------
\* C37: when an allocation inside insert or erase fails, the tree reachable
\* from the root is the same as before the call: the root is the node it
\* was, and every node that was reachable from it is allocated and holds
\* what it held
C37_FailedAllocationChangesNothing ==
    [][status' = "thrown" =>
        LET t == last'.tree
        IN  /\ root'[t] = root[t]
            /\ \A a \in Reach(heap, root[t]) : a \in DOMAIN heap' /\ heap'[a] = heap[a]]_vars

\* an insert has added the bit and an empty slot for a new chunk to a branch
\* node and has been left by the exception of the allocation of the leaf
C37_BitSetOverEmptySlot ==
    /\ status = "thrown"
    /\ last.op = "insert"
    /\ \E b \in BranchNodes(heap, root[last.tree], 0) :
          LET branch == heap[b.node.ptr]
              chunk == get_hash_chunk(Hash(last.key), b.depth)
          IN  /\ OccTest(branch.occupation, chunk)
              /\ branch.child[num_set_until(branch.occupation, chunk)].type = kEmpty

\* ------------------------------------------------------------------------
\* C38: termination and depth of the descent
\* ------------------------------------------------------------------------
\* the do-while loops over the chain of a list leaf come to a null next
\* within n nodes
RECURSIVE chainEnds(_, _, _)
chainEnds(h, iter, n) ==
    IF iter = 0 THEN TRUE
    ELSE IF n = 0 \/ iter \notin DOMAIN h THEN FALSE
    ELSE chainEnds(h, h[iter].next, n - 1)

\* C38: every insert, erase and find terminates and visits at most
\* kMaxDepth + 1 levels (hashPos never exceeds kMaxDepth), also where a full
\* leaf was pushed down level by level: in the tree a call starts from and
\* in the tree an insert has built no node lies below depth kMaxDepth, the
\* nodes at depth kMaxDepth are list leaves, at which every descent stops,
\* and the chain of every list leaf ends
C38_DescentBounded ==
    \A t \in alive :
        \A n \in NodesAt(heap, root[t], 0) :
            /\ n.depth <= kMaxDepth
            /\ n.depth = kMaxDepth => n.node.type = kListLeaf
            /\ n.node.type = kListLeaf =>
                  chainEnds(heap, heap[n.node.ptr].first.next, Cardinality(DOMAIN heap))

\* an insert has pushed a full leaf down from the root to depth
\* kMaxDepth - 1 and has burst it there: its key is in a chain of more than
\* 30 nodes at depth kMaxDepth, below a branch node at every depth above
C38_ChainAtMaxDepth ==
    /\ status = "ok"
    /\ last.op = "insert"
    /\ last.ret = TRUE
    /\ \E n \in NodesAt(heap, root[last.tree], 0) :
          /\ n.depth = kMaxDepth
          /\ n.node.type = kListLeaf
          /\ heap[n.node.ptr].count > kLeafBurstThreshold
          /\ last.key \in KeysOf(heap, n.node)
          /\ \A d \in 0 .. (kMaxDepth - 1) :
                pathNode(heap, root[last.tree], Hash(last.key), 0, d).type = kBranchNode

\* ------------------------------------------------------------------------
\* C39: num_set_after
\* ------------------------------------------------------------------------
\* C39 as claimed: num_set_after(p) returns the number of set bits of the
\* mask at positions strictly greater than p.
C39_CountsBitsAbovePos ==
    counting.ret # -1 =>
        counting.ret = Cardinality({b \in counting.occupation : b > counting.pos})

\* C39 amended: for every mask and every position p in 0 .. 63,
\* num_set_after(p) returns the number of set bits of the mask at positions
\* less than or equal to p.
C39_CountsBitsUpToPos ==
    counting.ret # -1 =>
        counting.ret = Cardinality({b \in counting.occupation : b <= counting.pos})

\* num_set_after(31) has returned 3 for a mask with bits below, at and above
\* position 31
C39_CountedBelowAndAt ==
    /\ counting.occupation = {0, 5, 31, 32, 63}
    /\ counting.pos = 31
    /\ counting.ret = 3
====
